---- MODULE Spec2Model ----
(***************************************************************************)
(* Name-variation pipeline of the miner: the requirement parser            *)
(* (neurons/parse_query/parse_query.py) and the name orchestrator          *)
(* (neurons/name/name.py).                                                 *)
(*                                                                         *)
(* A text is a sequence of one-character strings.  Random draws of the     *)
(* code (random.randint, random.choice) are nondeterministic choices.      *)
(***************************************************************************)
EXTENDS Integers, Sequences, FiniteSets, TLC

VARIABLES
    name,           \* seed text handed to generate_name_variations
    vc,             \* parsed_query['variation_count']
    pct,            \* parsed_query['rule_percentage'], in hundredths
    rules,          \* parsed_query['rules']
    unidecodeOk,    \* UNIDECODE_AVAILABLE
    pc,             \* position inside generate_name_variations
    variations,     \* list built by the caller of the Latin generator / result
    origin,         \* per element of variations: the strategy that produced it
    lname,          \* _generate_latin_variations: name
    lcount,         \* _generate_latin_variations: variation_count
    lvars,          \* _generate_latin_variations: variations
    lorig,          \* per element of lvars: the strategy that produced it
    ri,             \* _apply_rule_transformations: index of the current rule
    rvars,          \* _apply_rule_transformations: variations
    ocount,         \* _generate_orthographic_variations: count
    ovars,          \* _generate_orthographic_variations: variations
    attempts,       \* _generate_orthographic_variations: attempts
    scount,         \* _apply_script_transformations: count
    svars,          \* _apply_script_transformations: variations
    trace,          \* stages entered so far, in order
    calcIn,         \* (variation_count, percent) handed to the rule-count helpers
    calcOut,        \* their results
    text,           \* instruction text handed to parse_query_template
    req,            \* its result
    rname,          \* rule engine: name
    rrules,         \* rule engine: rules (one rule for a single call)
    rcount,         \* rule engine: count
    rpc,            \* rule engine: which function runs, or where it ended
    rresult,        \* apply_rule_to_name: returned text
    gi,             \* generate_rule_based_variations: index of the current rule
    gvars,          \* generate_rule_based_variations: variations
    gadded,         \* per rule processed: the number of variations it added
    cgen,           \* candidate generator called
    cname,          \* its name argument
    ccount,         \* its count argument
    cuni,           \* UNIDECODE_AVAILABLE of non_rule_based_variations.py
    cpc,            \* position inside the generator
    oname,          \* generate_orthographic_variations: name
    ocnt,           \* generate_orthographic_variations: count
    cvars,          \* variations of the generator whose loop runs
    cattempts,      \* generate_orthographic_variations: attempts
    cpre,           \* generate_transliteration_variations: variations so far
    cresult,        \* the list returned
    fname,          \* _clean_ollama_variations_with_dedup: original_name
    fexisting,      \* its existing_variations
    fraw,           \* its raw_output
    ftarget,        \* its target_count
    fpc,            \* position inside the filter
    fqueue,         \* lines (first pass) or comma parts (second pass) to come
    fused,          \* its used
    fcands,         \* its all_candidates
    fresult,        \* the list returned
    selCands,       \* _select_best_variations: candidates
    selOrig,        \* its original_name
    selK,           \* its target_count
    selPc,          \* whether it has returned
    selOut,         \* the list returned
    svcFn,          \* the function that calls the generative service
    svcName,        \* its name argument
    svcCount,       \* its count argument
    svcMode,        \* what the service does: a failure, or "ok"
    svcBody,        \* the text the service answers with
    svcPc,          \* "call", "returned" or "raised"
    svcOut,         \* the list returned
    svcRaised,      \* the exception that left the function
    rng,            \* state of the random source of the random module
    twRun,          \* 0: one call; 1, 2: first and second of two compared calls
    twSeed,         \* state of the random source at the start of both calls
    twFirst,        \* the list the first of the two calls returned
    fwdText,        \* Miner.forward: synapse.query_template
    fwdIds,         \* synapse.identity: the names of the identities, in order
    fwdPc,          \* position inside forward
    fwdI,           \* index of the identity the loop is at
    fwdReq,         \* parsed_query
    fwdVariations,  \* synapse.variations: name -> list of [name, dob, address]
    lkAvail,        \* address.py: REQUESTS_AVAILABLE
    lkCache,        \* the keys of _nominatim_cache
    lkPc,           \* per thread: position inside _get_real_addresses_from_nominatim
    lkCity,         \* per thread: the city argument of its lookup
    lkDone,         \* per thread: number of lookups that have returned
    lkStored,       \* per key: number of responses stored in the cache
    cmbLists,       \* Miner._combine_variations: name_vars, dob_vars, address_vars
    cmbTarget,      \* its target_count
    cmbPc,          \* position inside it
    cmbOut,         \* the list returned
    fbName,         \* _fallback_variations_with_dedup: name
    fbCount,        \* its count
    fbExisting,     \* its existing_variations
    fbPc,           \* position inside it
    fbVars,         \* its fallback_vars
    fbUsed          \* its used

genVars == <<name, vc, pct, rules, unidecodeOk, pc, variations, origin, lname,
             lcount, lvars, lorig, ri, rvars, ocount, ovars, attempts, scount,
             svars, trace, rng, twRun, twSeed, twFirst>>
calcVars == <<calcIn, calcOut>>
parseVars == <<text, req>>
ruleVars == <<rname, rrules, rcount, rpc, rresult, gi, gvars, gadded>>
candVars == <<cgen, cname, ccount, cuni, cpc, oname, ocnt, cvars, cattempts, cpre,
              cresult>>
filterVars == <<fname, fexisting, fraw, ftarget, fpc, fqueue, fused, fcands,
                fresult>>
selectVars == <<selCands, selOrig, selK, selPc, selOut>>
serviceVars == <<svcFn, svcName, svcCount, svcMode, svcBody, svcPc, svcOut,
                 svcRaised>>
forwardVars == <<fwdText, fwdIds, fwdPc, fwdI, fwdReq, fwdVariations>>
lookupVars == <<lkAvail, lkCache, lkPc, lkCity, lkDone, lkStored>>
combineVars == <<cmbLists, cmbTarget, cmbPc, cmbOut>>
fallbackVars == <<fbName, fbCount, fbExisting, fbPc, fbVars, fbUsed>>
moreVars == <<combineVars, fallbackVars>>
extVars == <<filterVars, selectVars, serviceVars, forwardVars, lookupVars, moreVars>>
vars == <<genVars, calcVars, parseVars, ruleVars, candVars, extVars>>
outsideRule == <<genVars, calcVars, parseVars, candVars, extVars>>
outsideCand == <<genVars, calcVars, parseVars, ruleVars, extVars>>
coreVars == <<genVars, calcVars, parseVars, ruleVars, candVars>>
outsideFilter == <<coreVars, selectVars, serviceVars, forwardVars, lookupVars, moreVars>>
outsideSelect == <<coreVars, filterVars, serviceVars, forwardVars, lookupVars, moreVars>>
outsideService == <<coreVars, filterVars, selectVars, forwardVars, lookupVars, moreVars>>
outsideForward == <<coreVars, filterVars, selectVars, serviceVars, lookupVars, moreVars>>
outsideLookup == <<coreVars, filterVars, selectVars, serviceVars, forwardVars,
                   moreVars>>
outsideCombine == <<coreVars, filterVars, selectVars, serviceVars, forwardVars,
                    lookupVars, fallbackVars>>
outsideFallback == <<coreVars, filterVars, selectVars, serviceVars, forwardVars,
                     lookupVars, combineVars>>

\* ------------------------------------------------------------------ bounds
MaxCount == 2
MaxCalcCount == 11
MaxPhrases == 2
MaxRuleCount == 2
MaxHint == 2
MaxLines == 2
MaxTarget == 2
MaxCands == 3
MaxK == 3
MaxIdentities == 2

RngStates == 7
MaxShortfall == 2
MaxLookups == 2
MaxComponent == 2
MaxCombine == 3
MaxFallback == 3

\* ------------------------------------------------------------ text helpers
Min(a, b) == IF a < b THEN a ELSE b
Max(a, b) == IF a > b THEN a ELSE b

\* s[:n] for n >= 0
Take(s, n) == SubSeq(s, 1, Min(n, Len(s)))
\* s[n:] for n >= 0
Drop(s, n) == SubSeq(s, n + 1, Len(s))

\* (upper, lower) pairs of the cased characters the model's texts can hold
LowerPairs ==
    {<<"A", "a">>, <<"B", "b">>, <<"C", "c">>, <<"D", "d">>, <<"E", "e">>,
     <<"F", "f">>, <<"G", "g">>, <<"H", "h">>, <<"I", "i">>, <<"J", "j">>,
     <<"K", "k">>, <<"L", "l">>, <<"M", "m">>, <<"N", "n">>, <<"O", "o">>,
     <<"P", "p">>, <<"Q", "q">>, <<"R", "r">>, <<"S", "s">>, <<"T", "t">>,
     <<"U", "u">>, <<"V", "v">>, <<"W", "w">>, <<"X", "x">>, <<"Y", "y">>,
     <<"Z", "z">>,
     <<"LA_A_grave", "LA_a_grave">>, <<"LA_A_acute", "LA_a_acute">>,
     <<"LA_A_circ", "LA_a_circ">>, <<"LA_A_tilde", "LA_a_tilde">>,
     <<"LA_E_grave", "LA_e_grave">>, <<"LA_E_acute", "LA_e_acute">>,
     <<"LA_E_circ", "LA_e_circ">>, <<"LA_E_uml", "LA_e_uml">>,
     <<"LA_I_grave", "LA_i_grave">>, <<"LA_I_acute", "LA_i_acute">>,
     <<"LA_I_circ", "LA_i_circ">>, <<"LA_I_uml", "LA_i_uml">>,
     <<"LA_O_grave", "LA_o_grave">>, <<"LA_O_acute", "LA_o_acute">>,
     <<"LA_O_circ", "LA_o_circ">>, <<"LA_O_tilde", "LA_o_tilde">>,
     <<"LA_U_grave", "LA_u_grave">>, <<"LA_U_acute", "LA_u_acute">>,
     <<"LA_U_circ", "LA_u_circ">>, <<"LA_U_uml", "LA_u_uml">>,
     <<"LA_S_cedilla", "LA_s_cedilla">>, <<"LA_S_caron", "LA_s_caron">>,
     <<"LA_T_cedilla", "LA_t_cedilla">>, <<"LA_T_caron", "LA_t_caron">>,
     <<"LA_L_stroke", "LA_l_stroke">>, <<"LA_G_breve", "LA_g_breve">>,
     <<"LA_N_tilde", "LA_n_tilde">>, <<"LA_N_caron", "LA_n_caron">>,
     <<"LA_C_cedilla", "LA_c_cedilla">>, <<"LA_C_caron", "LA_c_caron">>,
     <<"LA_Z_caron", "LA_z_caron">>, <<"LA_Z_acute", "LA_z_acute">>,
     <<"LA_Z_dot", "LA_z_dot">>, <<"GR_Alpha", "GR_alpha">>,
     <<"GR_Epsilon", "GR_epsilon">>, <<"GR_Omicron", "GR_omicron">>,
     <<"CY_DE_upper", "CY_DE">>, <<"CY_A_upper", "CY_A">>,
     <<"CY_YA_upper", "CY_YA">>}

\* str.lower() on one character
LowerChar(c) ==
    IF \E p \in LowerPairs : p[1] = c
    THEN (CHOOSE p \in LowerPairs : p[1] = c)[2]
    ELSE c

\* str.upper() on one character
UpperChar(c) ==
    IF \E p \in LowerPairs : p[2] = c
    THEN (CHOOSE p \in LowerPairs : p[2] = c)[1]
    ELSE c

\* str.lower()
Lower(s) == [i \in 1..Len(s) |-> LowerChar(s[i])]

LowerSet(list) == {Lower(list[i]) : i \in 1..Len(list)}

\* sub in s
Contains(s, sub) ==
    \E i \in 1..(Len(s) - Len(sub) + 1) : SubSeq(s, i, i + Len(sub) - 1) = sub

RECURSIVE Replace(_, _, _)
\* s.replace(old, new), old non-empty: leftmost non-overlapping occurrences
Replace(s, old, new) ==
    IF Len(s) < Len(old) THEN s
    ELSE IF SubSeq(s, 1, Len(old)) = old
         THEN new \o Replace(Drop(s, Len(old)), old, new)
         ELSE <<s[1]>> \o Replace(Drop(s, 1), old, new)

RECURSIVE Split(_)
\* s.split(): the maximal runs of non-space characters
Split(s) ==
    IF s = <<>> THEN <<>>
    ELSE IF s[1] = " " THEN Split(Drop(s, 1))
    ELSE LET n == IF \E i \in 1..Len(s) : s[i] = " "
                  THEN (CHOOSE i \in 1..Len(s) :
                          s[i] = " " /\ \A j \in 1..(i - 1) : s[j] # " ") - 1
                  ELSE Len(s)
         IN <<Take(s, n)>> \o Split(Drop(s, n))

RECURSIVE Join(_, _)
\* sep.join(parts)
Join(parts, sep) ==
    IF parts = <<>> THEN <<>>
    ELSE IF Len(parts) = 1 THEN parts[1]
    ELSE parts[1] \o sep \o Join(Tail(parts), sep)

\* parts[::-1]
Reverse(s) == [i \in 1..Len(s) |-> s[Len(s) + 1 - i]]

\* s without the character at 0-based index idx
DeleteAt(s, idx) == Take(s, idx) \o Drop(s, idx + 1)

\* s with text c inserted before 0-based index idx
InsertAt(s, idx, c) == Take(s, idx) \o c \o Drop(s, idx)

RECURSIVE AppendNew_NoListCheck(_, _, _, _)
\* AppendNew that forgets used.add(var.lower())
AppendNew_NoListCheck(list, cand, base, limit) ==
    IF cand = <<>> THEN list
    ELSE IF Lower(cand[1]) \notin base /\ Len(list) < limit
         THEN AppendNew_NoListCheck(Append(list, cand[1]), Tail(cand), base, limit)
         ELSE AppendNew_NoListCheck(list, Tail(cand), base, limit)

RECURSIVE AppendNew_CaseSensitive(_, _, _, _)
\* AppendNew that tests "var not in used" without lower-casing var
AppendNew_CaseSensitive(list, cand, base, limit) ==
    IF cand = <<>> THEN list
    ELSE IF cand[1] \notin (LowerSet(list) \cup base) /\ Len(list) < limit
         THEN AppendNew_CaseSensitive(Append(list, cand[1]), Tail(cand), base, limit)
         ELSE AppendNew_CaseSensitive(list, Tail(cand), base, limit)

RECURSIVE AppendNew(_, _, _, _)
\* for var in cand: if var.lower() not in used and len(list) < limit:
\*     list.append(var); used.add(var.lower())
\* (used is the lower-cased list plus the lower-cased names in base)
AppendNew(list, cand, base, limit) ==
    IF cand = <<>> THEN list
    ELSE IF Lower(cand[1]) \notin (LowerSet(list) \cup base) /\ Len(list) < limit
         THEN AppendNew(Append(list, cand[1]), Tail(cand), base, limit)
         ELSE AppendNew(list, Tail(cand), base, limit)

\* the same loop without the length condition
AppendNewAll(list, cand, base) ==
    AppendNew(list, cand, base, Len(list) + Len(cand))

\* [x] * n
Repeat(x, n) == [i \in 1..n |-> x]

RECURSIVE AppendNewTags(_, _, _, _, _, _)
\* the tags of AppendNew(list, cand, base, limit), the candidates carrying ctags
AppendNewTags(list, tags, cand, ctags, base, limit) ==
    IF cand = <<>> THEN tags
    ELSE IF Lower(cand[1]) \notin (LowerSet(list) \cup base) /\ Len(list) < limit
         THEN AppendNewTags(Append(list, cand[1]), Append(tags, ctags[1]),
                            Tail(cand), Tail(ctags), base, limit)
         ELSE AppendNewTags(list, tags, Tail(cand), Tail(ctags), base, limit)

\* ------------------------------------------------------- script detection
\* Characters outside ASCII are written as tokens: AR_ Arabic, CY_ Cyrillic,
\* CJ_ CJK, GR_ Greek.
ArabicChars == {"AR_BA", "AR_NUN"}
CyrillicChars == {"CY_DE", "CY_A", "CY_YA"}
CJKChars == {"CJ_LI", "CJ_WANG"}

detect_script_type(s) ==
    IF \E i \in 1..Len(s) : s[i] \in ArabicChars THEN "arabic"
    ELSE IF \E i \in 1..Len(s) : s[i] \in CyrillicChars THEN "cyrillic"
    ELSE IF \E i \in 1..Len(s) : s[i] \in CJKChars THEN "cjk"
    ELSE "latin"

\* unidecode() of one character
UnidecodeChar(c) ==
    CASE c = "AR_BA" -> <<"b">>
      [] c = "AR_NUN" -> <<"n">>
      [] c = "CY_DE" -> <<"d">>
      [] c = "CY_A" -> <<"a">>
      [] c = "CY_YA" -> <<"i", "a">>
      [] c = "CJ_LI" -> <<"L", "i", " ">>
      [] c = "CJ_WANG" -> <<"W", "a", "n", "g", " ">>
      [] c = "LA_e_acute" -> <<"e">>
      [] OTHER -> <<c>>

RECURSIVE unidecode(_)
unidecode(s) ==
    IF s = <<>> THEN <<>> ELSE UnidecodeChar(s[1]) \o unidecode(Tail(s))

\* ------------------------------------------------------------ rule phase
\* calculate_rule_count: math.ceil(variation_count * rule_percentage)
calculate_rule_count(count, percent) == (count * percent + 99) \div 100

\* rule_count rounded up instead of truncated
rule_count_Ceil(count, percent) == calculate_rule_count(count, percent)

\* rule_count of _generate_latin_variations: int(variation_count * rule_percentage)
rule_count(count, percent) == (count * percent) \div 100

\* variations_per_rule of _apply_rule_transformations
variations_per_rule(count, rs) ==
    IF rs # <<>> THEN Max(1, count \div Len(rs)) ELSE 0

\* build_ollama_prompt: variations_per_rule + (1 if i < extra_variations else 0)
\* for rule number i (from 0) of num_rules
count_for_this_rule(total, num_rules, i) ==
    total \div num_rules + (IF i < total % num_rules THEN 1 ELSE 0)

VowelOrder == <<"a", "e", "i", "o", "u", "A", "E", "I", "O", "U">>

VowelReplacement(v) ==
    CASE v = "a" -> "@" [] v = "e" -> "3" [] v = "i" -> "1"
      [] v = "o" -> "0" [] v = "u" -> "v"

\* name[:idx] + name[idx+1] + name[idx] + name[idx+2:]
SwapAt(s, idx) ==
    Take(s, idx) \o <<s[idx + 2], s[idx + 1]>> \o Drop(s, idx + 2)

\* the values random.randint can return in the branch of the rule
RuleRandoms(s, rule) ==
    IF rule = "delete_letter" /\ Len(s) > 2 THEN 0..(Len(s) - 1)
    ELSE IF rule = "swap_random_letter" /\ Len(s) >= 2 THEN 0..(Len(s) - 2)
    ELSE {0}

\* rnd[i] is the index drawn in iteration i of the rule's loop
apply_single_rule(s, rule, count, rnd) ==
    LET parts == Split(s)
        all ==
          CASE rule = "replace_spaces_with_special_characters" ->
                 IF Contains(s, <<" ">>)
                 THEN <<Replace(s, <<" ">>, <<"_">>), Replace(s, <<" ">>, <<"-">>),
                        Replace(s, <<" ">>, <<".">>)>>
                 ELSE <<>>
            [] rule = "replace_vowels" ->
                 IF \E k \in 1..Len(VowelOrder) : Contains(s, <<VowelOrder[k]>>)
                 THEN LET k == CHOOSE k \in 1..Len(VowelOrder) :
                                 /\ Contains(s, <<VowelOrder[k]>>)
                                 /\ \A j \in 1..(k - 1) : ~Contains(s, <<VowelOrder[j]>>)
                          v == VowelOrder[k]
                      IN Repeat(Replace(s, <<v>>, <<VowelReplacement(LowerChar(v))>>),
                                count)
                 ELSE <<>>
            [] rule = "delete_letter" ->
                 IF Len(s) > 2 THEN [i \in 1..count |-> DeleteAt(s, rnd[i])]
                 ELSE <<>>
            [] rule = "swap_random_letter" ->
                 IF Len(s) >= 2 THEN [i \in 1..count |-> SwapAt(s, rnd[i])]
                 ELSE <<>>
            [] rule = "shorten_name_to_initials" ->
                 IF Len(parts) >= 2
                 THEN <<Join([i \in 1..Len(parts) |-> <<UpperChar(parts[i][1])>>],
                             <<".">>)>>
                 ELSE <<>>
            [] rule = "reorder_name_parts" ->
                 IF Len(parts) >= 2
                 THEN <<Join(Reverse(parts), <<" ">>)>> \o
                      (IF Len(parts) > 2
                       THEN <<parts[Len(parts)] \o <<" ">> \o
                              Join(Take(parts, Len(parts) - 1), <<" ">>)>>
                       ELSE <<>>)
                 ELSE <<>>
            [] OTHER -> <<>>
    IN Take(all, count)

\* ---------------------------------------------------------- free generation
phonetic_rules ==
    << <<<<"p", "h">>, <<"f">>>>, <<<<"f">>, <<"p", "h">>>>,
       <<<<"c">>, <<"k">>>>, <<<<"k">>, <<"c">>>>,
       <<<<"s">>, <<"z">>>>, <<<<"z">>, <<"s">>>>,
       <<<<"i">>, <<"y">>>>, <<<<"y">>, <<"i">>>>,
       <<<<"c", "k">>, <<"k">>>>, <<<<"k">>, <<"c", "k">>>> >>

RECURSIVE PhoneticCandidates(_, _)
\* the var of every phonetic rule whose old text is in name.lower(), from rule k on
PhoneticCandidates(s, k) ==
    IF k > Len(phonetic_rules) THEN <<>>
    ELSE (IF Contains(Lower(s), phonetic_rules[k][1])
          THEN <<Replace(s, phonetic_rules[k][1], phonetic_rules[k][2])>>
          ELSE <<>>) \o PhoneticCandidates(s, k + 1)

\* the "remove double letters" loop: the first fresh var, appended
RemoveDouble(s, list) ==
    LET fresh(i) == /\ s[i] = s[i + 1]
                    /\ Lower(DeleteAt(s, i - 1)) \notin (LowerSet(list) \cup {Lower(s)})
    IN IF \E i \in 1..(Len(s) - 1) : fresh(i)
       THEN Append(list, DeleteAt(s, (CHOOSE i \in 1..(Len(s) - 1) :
                      fresh(i) /\ \A j \in 1..(i - 1) : ~fresh(j)) - 1))
       ELSE list

\* the body of the while loop of _generate_phonetic_variations
phonetic_attempt(s, count, list) ==
    LET afterRules == AppendNew(list, PhoneticCandidates(s, 1), {Lower(s)}, count)
    IN IF Len(afterRules) < count THEN RemoveDouble(s, afterRules) ELSE afterRules

RECURSIVE PhoneticLoop(_, _, _, _)
PhoneticLoop(s, count, list, att) ==
    IF Len(list) < count /\ att < count * 3
    THEN PhoneticLoop(s, count, phonetic_attempt(s, count, list), att + 1)
    ELSE list

generate_phonetic_variations(s, count) ==
    Take(PhoneticLoop(s, count, <<>>, 0), Max(count, 0))

similar_chars(c) ==
    CASE c = "a" -> {"@", "GR_alpha"} [] c = "e" -> {"3", "GR_epsilon"}
      [] c = "i" -> {"1", "l"} [] c = "o" -> {"0", "GR_omicron"}
      [] c = "s" -> {"$", "5"} [] c = "t" -> {"+", "7"}
      [] c = "l" -> {"1", "I"} [] c = "g" -> {"9", "q"}
      [] OTHER -> {}

Vowels == {"a", "e", "i", "o", "u"}

\* the Arabic/Cyrillic part of _apply_script_transformations: swap, merge, reverse
ScriptParts(s, script) ==
    LET parts == Split(s)
    IN IF script \in {"arabic", "cyrillic"} /\ Len(parts) >= 2
       THEN AppendNewAll(<<>>,
                <<Join(<<parts[Len(parts)]>> \o Take(parts, Len(parts) - 1), <<" ">>),
                  Join(parts, <<>>),
                  Join(Reverse(parts), <<" ">>)>>,
                {Lower(s)})
       ELSE <<>>

\* --------------------------------------------------------------- inputs
Seeds == { <<"i">>, <<"K", "k">>, <<"a", " ", "b">>,
           <<"CY_YA">>, <<"CY_DE", "CY_A">>, <<"CY_DE", " ", "CY_A">>,
           <<"AR_BA">>, <<"CJ_LI">> }

Percents == {0, 51, 100, 200}

RuleLists == { <<>>,
               <<"swap_random_letter">>,
               <<"replace_vowels", "delete_letter">>,
               <<"reorder_name_parts", "replace_spaces_with_special_characters">>,
               <<"shorten_name_to_initials", "delete_random_letter">> }

\* the trace after entering stage st
Enter(tr, st) == IF tr[Len(tr)] = st THEN tr ELSE Append(tr, st)

Script == detect_script_type(name)

\* a single call: the random source is not followed, every draw is free
TwinOff == rng = 0 /\ twRun = 0 /\ twSeed = 0 /\ twFirst = <<>>

GenIdle ==
    /\ TwinOff
    /\ name = <<>> /\ vc = 0 /\ pct = 0 /\ rules = <<>> /\ unidecodeOk = FALSE
    /\ pc = "idle" /\ variations = <<>> /\ origin = <<>>
    /\ lname = <<>> /\ lcount = 0 /\ lvars = <<>> /\ lorig = <<>>
    /\ ri = 1 /\ rvars = <<>> /\ ocount = 0 /\ ovars = <<>> /\ attempts = 0
    /\ scount = 0 /\ svars = <<>> /\ trace = <<"Parsed">>

GenStart ==
    /\ name \in Seeds
    /\ vc \in 1..MaxCount
    /\ pct \in Percents
    /\ rules \in RuleLists
    \* the flag is read for non-Latin seeds only
    /\ unidecodeOk \in (IF detect_script_type(name) = "latin" THEN {TRUE} ELSE BOOLEAN)
    /\ pc = "start" /\ variations = <<>> /\ origin = <<>>
    /\ lname = <<>> /\ lcount = 0 /\ lvars = <<>> /\ lorig = <<>>
    /\ ri = 1 /\ rvars = <<>> /\ ocount = 0 /\ ovars = <<>> /\ attempts = 0
    /\ scount = 0 /\ svars = <<>> /\ trace = <<"Parsed">>

GenInit == GenStart /\ TwinOff

CalcIdle == calcIn = <<0, 0>> /\ calcOut = <<>>
ParseIdle == text = <<>> /\ req = <<>>
RuleIdle ==
    /\ rname = <<>> /\ rrules = <<>> /\ rcount = 0 /\ rpc = "idle"
    /\ rresult = <<>> /\ gi = 1 /\ gvars = <<>> /\ gadded = <<>>
CandIdle ==
    /\ cgen = "none" /\ cname = <<>> /\ ccount = 0 /\ cuni = FALSE /\ cpc = "idle"
    /\ oname = <<>> /\ ocnt = 0 /\ cvars = <<>> /\ cattempts = 0 /\ cpre = <<>>
    /\ cresult = <<>>

FilterIdle ==
    /\ fname = <<>> /\ fexisting = {} /\ fraw = <<>> /\ ftarget = 0
    /\ fpc = "idle" /\ fqueue = <<>> /\ fused = {} /\ fcands = <<>>
    /\ fresult = <<>>
SelectIdle ==
    /\ selCands = <<>> /\ selOrig = <<>> /\ selK = 0 /\ selPc = "idle"
    /\ selOut = <<>>
ServiceIdle ==
    /\ svcFn = "none" /\ svcName = <<>> /\ svcCount = 0 /\ svcMode = "none"
    /\ svcBody = <<>> /\ svcPc = "idle" /\ svcOut = <<>> /\ svcRaised = "none"
ForwardIdle ==
    /\ fwdText = <<>> /\ fwdIds = <<>> /\ fwdPc = "idle" /\ fwdI = 1
    /\ fwdReq = <<>> /\ fwdVariations = <<>>
Threads == {"t1", "t2"}
Cities == {<<"P", "a">>, <<"p", "a">>, <<"R", "o">>}
Country == <<"F", "r">>

\* cache_key = f"{city.lower()},{country.lower()}"
cache_key(city, country) == Lower(city) \o <<",">> \o Lower(country)

CacheKeys == {cache_key(c, Country) : c \in Cities}

LookupIdle ==
    /\ lkAvail = FALSE /\ lkCache = {}
    /\ lkPc = [t \in Threads |-> "idle"] /\ lkCity = [t \in Threads |-> <<>>]
    /\ lkDone = [t \in Threads |-> 0] /\ lkStored = [k \in CacheKeys |-> 0]
CombineIdle ==
    cmbLists = <<>> /\ cmbTarget = 0 /\ cmbPc = "idle" /\ cmbOut = <<>>
FallbackIdle ==
    /\ fbName = <<>> /\ fbCount = 0 /\ fbExisting = {} /\ fbPc = "idle"
    /\ fbVars = <<>> /\ fbUsed = {}
MoreIdle == CombineIdle /\ FallbackIdle
ExtIdle ==
    /\ FilterIdle /\ SelectIdle /\ ServiceIdle /\ ForwardIdle /\ LookupIdle
    /\ MoreIdle

gen_fixed == <<name, vc, pct, rules, unidecodeOk, calcVars, parseVars, ruleVars,
               candVars, extVars, twRun, twSeed, twFirst>>
gen_inputs == <<gen_fixed, rng>>

\* ----------------------------------------------------- the random module
RECURSIVE Nth(_, _)
\* element number n (from 0) of a finite set, in a fixed order
Nth(S, n) ==
    LET x == CHOOSE y \in S : TRUE
    IN IF n = 0 THEN x ELSE Nth(S \ {x}, n - 1)

\* what draw number k of a step yields from the state of the random source
Raw(k) == (rng + k * (rng + 1)) % RngStates

\* Pick that does not depend on the state of the random source
Pick_Unseeded(S, k) == S

\* random.randint / random.choice over the outcomes S, as draw number k of a
\* step: any outcome in a single call, the outcome the state of the random
\* source determines when two calls are compared
Pick(S, k) ==
    IF twRun = 0 \/ S = {} THEN S ELSE {Nth(S, Raw(k) % Cardinality(S))}

\* the state of the random source after the draws of a step
NextRng == IF twRun = 0 THEN rng ELSE (3 * rng + 1) % RngStates
ortho_frame == <<ocount, ovars, attempts>>
script_frame == <<scount, svars>>

\* --------------------------------------------- generate_name_variations
\* the call _generate_latin_variations(n, query with variation_count c), up to
\* the computation of rule_count
EnterLatin(n, c) ==
    /\ lname' = n /\ lcount' = c /\ lvars' = <<>> /\ lorig' = <<>>
    /\ ri' = 1 /\ rvars' = <<>>
    /\ pc' = IF rules # <<>> /\ rule_count(c, pct) > 0 THEN "rules" ELSE "phonetic"
    /\ trace' = Enter(trace, "RuleAllocated")

Start ==
    /\ pc = "start"
    /\ IF Script = "latin"
       THEN /\ EnterLatin(name, vc)
            /\ UNCHANGED script_frame
       ELSE /\ pc' = "script"
            /\ scount' = vc \div 2
            /\ svars' = ScriptParts(name, Script)
            /\ trace' = Enter(trace, "ScriptGenerated")
            /\ UNCHANGED <<lname, lcount, lvars, lorig, ri, rvars>>
    /\ UNCHANGED <<gen_inputs, variations, origin, ortho_frame>>

\* one iteration of "for rule in rules" in _apply_rule_transformations; the
\* last one returns to _generate_latin_variations, which merges the result
RuleStep ==
    /\ pc = "rules" /\ ri <= Len(rules)
    /\ LET count == rule_count(lcount, pct)
           per == variations_per_rule(count, rules)
       IN \E rnd \in Pick([1..per -> RuleRandoms(lname, rules[ri])], 1) :
            LET got == AppendNew(rvars, apply_single_rule(lname, rules[ri], per, rnd),
                                 {Lower(lname)}, count)
                merged == AppendNewAll(lvars, got, {Lower(lname)})
            IN /\ rvars' = got
               /\ IF ri = Len(rules)
                  THEN /\ lvars' = merged
                       /\ lorig' = lorig \o Repeat("rule", Len(merged) - Len(lvars))
                       /\ pc' = "phonetic"
                       /\ ri' = ri
                  ELSE /\ ri' = ri + 1
                       /\ UNCHANGED <<lvars, lorig, pc>>
    /\ UNCHANGED <<gen_fixed, variations, origin, lname, lcount, ortho_frame,
                   script_frame, trace>>
    /\ rng' = NextRng

\* strategy 2 of _generate_latin_variations and the entry of strategy 3
Phonetic ==
    /\ pc = "phonetic"
    /\ LET remaining == lcount - Len(lvars)
           after == IF remaining > 0
                    THEN AppendNew(lvars,
                             generate_phonetic_variations(lname, remaining \div 2),
                             {Lower(lname)}, lcount)
                    ELSE lvars
       IN /\ lvars' = after
          /\ lorig' = lorig \o Repeat("phonetic", Len(after) - Len(lvars))
          /\ IF lcount - Len(after) > 0
             THEN /\ pc' = "ortho_sub"
                  /\ ocount' = lcount - Len(after)
                  /\ ovars' = <<>>
                  /\ attempts' = 0
             ELSE /\ pc' = "latin_ret"
                  /\ UNCHANGED ortho_frame
    /\ trace' = Enter(trace, "FreeGenerated")
    /\ UNCHANGED <<gen_inputs, variations, origin, lname, lcount, ri, rvars,
                   script_frame>>

\* list.append(var) when var.lower() is not in the used set of the ortho loop
OrthoAdd(var) == AppendNew(ovars, <<var>>, {Lower(lname)}, Len(ovars) + 1)

\* top of the while loop of _generate_orthographic_variations and its
\* character substitution
OrthoSub ==
    /\ pc = "ortho_sub"
    /\ Len(ovars) < ocount /\ attempts < ocount * 5
    /\ attempts' = attempts + 1
    /\ IF Len(lname) > 1
       THEN \E idx \in Pick(0..(Len(lname) - 1), 1) :
              LET sim == similar_chars(LowerChar(lname[idx + 1]))
              IN IF sim # {}
                 THEN \E r \in Pick(sim, 2) :
                        ovars' = OrthoAdd(Take(lname, idx) \o <<r>> \o Drop(lname, idx + 1))
                 ELSE ovars' = ovars
       ELSE ovars' = ovars
    /\ pc' = "ortho_ins"
    /\ UNCHANGED <<gen_fixed, variations, origin, lname, lcount, lvars, lorig,
                   ri, rvars, ocount, script_frame, trace>>
    /\ rng' = NextRng

\* character insertion
OrthoIns ==
    /\ pc = "ortho_ins"
    /\ IF Len(ovars) < ocount /\ Len(lname) > 1
       THEN \E idx \in Pick(0..Len(lname), 1), ch \in Pick(Vowels, 2) :
              ovars' = OrthoAdd(InsertAt(lname, idx, <<ch>>))
       ELSE ovars' = ovars
    /\ pc' = "ortho_del"
    /\ UNCHANGED <<gen_fixed, variations, origin, lname, lcount, lvars, lorig,
                   ri, rvars, ocount, attempts, script_frame, trace>>
    /\ rng' = NextRng

\* character deletion
OrthoDel ==
    /\ pc = "ortho_del"
    /\ IF Len(ovars) < ocount /\ Len(lname) > 2
       THEN \E idx \in Pick(0..(Len(lname) - 1), 1) :
              ovars' = OrthoAdd(DeleteAt(lname, idx))
       ELSE ovars' = ovars
    /\ pc' = "ortho_sub"
    /\ UNCHANGED <<gen_fixed, variations, origin, lname, lcount, lvars, lorig,
                   ri, rvars, ocount, attempts, script_frame, trace>>
    /\ rng' = NextRng

\* OrthoExit that puts the orthographic variations in front of the list
OrthoExit_Prepend ==
    /\ pc = "ortho_sub"
    /\ ~(Len(ovars) < ocount /\ attempts < ocount * 5)
    /\ LET after == AppendNew(lvars, Take(ovars, ocount), {Lower(lname)}, lcount)
           new == SubSeq(after, Len(lvars) + 1, Len(after))
       IN /\ lvars' = new \o lvars
          /\ lorig' = Repeat("ortho", Len(new)) \o lorig
    /\ pc' = "latin_ret"
    /\ UNCHANGED <<gen_inputs, variations, origin, lname, lcount, ri, rvars,
                   ortho_frame, script_frame, trace>>

\* exit of the while loop; strategy 3 of _generate_latin_variations merges
OrthoExit ==
    /\ pc = "ortho_sub"
    /\ ~(Len(ovars) < ocount /\ attempts < ocount * 5)
    /\ LET after == AppendNew(lvars, Take(ovars, ocount), {Lower(lname)}, lcount)
       IN /\ lvars' = after
          /\ lorig' = lorig \o Repeat("ortho", Len(after) - Len(lvars))
    /\ pc' = "latin_ret"
    /\ UNCHANGED <<gen_inputs, variations, origin, lname, lcount, ri, rvars,
                   ortho_frame, script_frame, trace>>

\* return of _generate_latin_variations to generate_name_variations (Latin
\* seed) or to _generate_non_latin_variations, which merges
LatinReturn ==
    /\ pc = "latin_ret"
    /\ IF Script = "latin"
       THEN /\ variations' = lvars
            /\ origin' = lorig
       ELSE /\ variations' = AppendNew(variations, lvars, {Lower(name)}, vc)
            /\ origin' = AppendNewTags(variations, origin, lvars, lorig,
                                       {Lower(name)}, vc)
    /\ pc' = "ensure"
    /\ trace' = Enter(trace, "Reconciled")
    /\ UNCHANGED <<gen_inputs, lname, lcount, lvars, lorig, ri, rvars,
                   ortho_frame, script_frame>>

\* one iteration of the fill loop of _apply_script_transformations
ScriptFill ==
    /\ pc = "script"
    /\ Len(svars) < scount
    /\ \E i1 \in Pick(0..Max(Len(name) - 1, 0), 1),
          i2 \in Pick(0..Max(Len(name) - 1, 0), 2) :
         LET del == DeleteAt(name, i1)
             afterDel == IF Len(name) > 2 /\ del # <<>>
                         THEN AppendNewAll(svars, <<del>>, {Lower(name)})
                         ELSE svars
             dup == InsertAt(name, i2 + 1, <<name[i2 + 1]>>)
         IN svars' = IF Len(afterDel) >= scount THEN afterDel
                     ELSE IF Len(name) > 1
                          THEN AppendNewAll(afterDel, <<dup>>, {Lower(name)})
                          ELSE afterDel
    /\ UNCHANGED <<gen_fixed, pc, variations, origin, lname, lcount, lvars, lorig,
                   ri, rvars, ortho_frame, scount, trace>>
    /\ rng' = NextRng

\* return of _apply_script_transformations; _generate_non_latin_variations
\* merges the result and decides about transliteration
ScriptExit ==
    /\ pc = "script"
    /\ Len(svars) >= scount
    /\ LET merged == AppendNewAll(<<>>, Take(svars, scount), {Lower(name)})
           transliterated == unidecode(name)
       IN /\ variations' = merged
          /\ origin' = Repeat("script", Len(merged))
          /\ IF unidecodeOk /\ Len(merged) < vc
                /\ transliterated # <<>> /\ transliterated # name
             THEN EnterLatin(transliterated, vc - Len(merged))
             ELSE /\ pc' = "ensure"
                  /\ trace' = Enter(trace, "Reconciled")
                  /\ UNCHANGED <<lname, lcount, lvars, lorig, ri, rvars>>
    /\ UNCHANGED <<gen_inputs, ortho_frame, script_frame>>

\* one iteration of the while loop of _ensure_variation_count; used is the
\* lower-cased variations plus the lower-cased original name
EnsureStep ==
    /\ pc = "ensure"
    /\ Len(variations) < vc
    /\ \E b \in Pick(0..Min(3, Len(variations)), 1) :
         LET base_name == IF b = 0 THEN name ELSE variations[b]
             used == LowerSet(variations) \cup {Lower(name)}
         IN \E i1 \in Pick(0..Max(Len(base_name) - 1, 0), 2),
               i2 \in Pick(0..Len(base_name), 3), ch \in Pick(Vowels, 4) :
              LET del == DeleteAt(base_name, i1)
                  ins == InsertAt(base_name, i2, <<ch>>)
                  var == IF Len(base_name) > 2 /\ del # <<>> /\ Lower(del) \notin used
                         THEN <<del>>
                         ELSE IF Lower(ins) \notin used THEN <<ins>> ELSE <<>>
              IN /\ variations' = variations \o var
                 /\ origin' = origin \o Repeat("pad", Len(var))
    /\ UNCHANGED <<gen_fixed, pc, lname, lcount, lvars, lorig, ri, rvars,
                   ortho_frame, script_frame, trace>>
    /\ rng' = NextRng

\* EnsureReturn that returns the list without slicing it
EnsureReturn_NoTrim ==
    /\ pc = "ensure"
    /\ Len(variations) >= vc
    /\ pc' = "done"
    /\ trace' = Enter(trace, "Returned")
    /\ UNCHANGED <<gen_inputs, variations, origin, lname, lcount, lvars, lorig, ri,
                   rvars, ortho_frame, script_frame>>

\* return of _ensure_variation_count and of generate_name_variations
EnsureReturn ==
    /\ pc = "ensure"
    /\ Len(variations) >= vc
    /\ variations' = Take(variations, vc)
    /\ origin' = Take(origin, vc)
    /\ pc' = "done"
    /\ trace' = Enter(trace, "Returned")
    /\ UNCHANGED <<gen_inputs, lname, lcount, lvars, lorig, ri, rvars,
                   ortho_frame, script_frame>>

\* the positions inside the while loops of _generate_orthographic_variations,
\* _apply_script_transformations and _ensure_variation_count, and their steps
LoopPositions == {"ortho_sub", "ortho_ins", "ortho_del", "script", "ensure"}

LoopSteps ==
    \/ OrthoSub \/ OrthoIns \/ OrthoDel \/ OrthoExit
    \/ ScriptFill \/ ScriptExit
    \/ EnsureStep \/ EnsureReturn

Init == GenInit /\ CalcIdle /\ ParseIdle /\ RuleIdle /\ CandIdle /\ ExtIdle

Next ==
    \/ Start \/ RuleStep \/ Phonetic
    \/ OrthoSub \/ OrthoIns \/ OrthoDel \/ OrthoExit \/ LatinReturn
    \/ ScriptFill \/ ScriptExit
    \/ EnsureStep \/ EnsureReturn

Spec == Init /\ [][Next]_vars

\* --------------------------------------- _ensure_variation_count on its own
RECURSIVE SetToSeq(_)
\* the elements of a finite set as a list
SetToSeq(S) ==
    IF S = {} THEN <<>>
    ELSE LET x == CHOOSE y \in S : TRUE IN <<x>> \o SetToSeq(S \ {x})

\* every var one iteration of the loop can build from base_name
Derivable(base_name) ==
    {InsertAt(base_name, idx, <<ch>>) : idx \in 0..Len(base_name), ch \in Vowels}
      \cup (IF Len(base_name) > 2
            THEN {DeleteAt(base_name, idx) : idx \in 0..(Len(base_name) - 1)}
            ELSE {})

\* a list that starts with three variations of n and holds every string the
\* loop can build from n and from these three
SaturatedList(n) ==
    LET first == <<InsertAt(n, 0, <<"a">>), InsertAt(n, 0, <<"e">>),
                   InsertAt(n, 0, <<"i">>)>>
        pool == UNION {Derivable(b) : b \in {n, first[1], first[2], first[3]}}
    IN first \o SetToSeq(pool \ {first[1], first[2], first[3], n})

EnsureSeeds == {<<"a">>, <<"K", "i">>}

\* _ensure_variation_count(variations, original_name, target_count) is called
EnsureInputs ==
    /\ name \in EnsureSeeds
    /\ variations \in {<<>>, <<InsertAt(name, 0, <<"a">>)>>, SaturatedList(name)}
    /\ vc \in {Len(variations) + k : k \in 0..MaxShortfall}
    /\ origin = Repeat("given", Len(variations))
    /\ pct = 0 /\ rules = <<>> /\ unidecodeOk = TRUE
    /\ pc = "ensure"
    /\ lname = <<>> /\ lcount = 0 /\ lvars = <<>> /\ lorig = <<>>
    /\ ri = 1 /\ rvars = <<>> /\ ocount = 0 /\ ovars = <<>> /\ attempts = 0
    /\ scount = 0 /\ svars = <<>> /\ trace = <<"Parsed">>

EnsureInit ==
    /\ EnsureInputs /\ TwinOff
    /\ CalcIdle /\ ParseIdle /\ RuleIdle /\ CandIdle /\ ExtIdle

EnsureNext == EnsureStep \/ EnsureReturn

EnsureSpec == EnsureInit /\ [][EnsureNext]_vars

\* ------------------------------------ address.py: the address lookup cache
\* Threads call _get_real_addresses_from_nominatim(city, Country); the module
\* dictionary _nominatim_cache is shared and no lock is taken.
LookupInit ==
    /\ GenIdle /\ CalcIdle /\ ParseIdle /\ RuleIdle /\ CandIdle
    /\ FilterIdle /\ SelectIdle /\ ServiceIdle /\ ForwardIdle /\ MoreIdle
    /\ lkAvail \in BOOLEAN /\ lkCache = {}
    /\ lkPc = [t \in Threads |-> "idle"] /\ lkCity = [t \in Threads |-> <<>>]
    /\ lkDone = [t \in Threads |-> 0] /\ lkStored = [k \in CacheKeys |-> 0]

\* the call up to requests.get: without requests it returns [], with the key
\* in the cache it returns the cached list
LookupCall(t) ==
    /\ lkPc[t] = "idle" /\ lkDone[t] < MaxLookups
    /\ \E city \in Cities :
         /\ lkCity' = [lkCity EXCEPT ![t] = city]
         /\ IF ~lkAvail \/ cache_key(city, Country) \in lkCache
            THEN /\ lkDone' = [lkDone EXCEPT ![t] = @ + 1]
                 /\ UNCHANGED lkPc
            ELSE /\ lkPc' = [lkPc EXCEPT ![t] = "request"]
                 /\ UNCHANGED lkDone
    /\ UNCHANGED <<lkAvail, lkCache, lkStored, outsideLookup>>

\* requests.get(...) answers: a status other than 200, an empty result list
\* and an exception make the function return []; results lead to
\* time.sleep(1.0) and the extraction
LookupRequest(t) ==
    /\ lkPc[t] = "request"
    /\ \E answer \in {"results", "status", "empty", "raised"} :
         IF answer = "results"
         THEN /\ lkPc' = [lkPc EXCEPT ![t] = "store"]
              /\ UNCHANGED lkDone
         ELSE /\ lkPc' = [lkPc EXCEPT ![t] = "idle"]
              /\ lkDone' = [lkDone EXCEPT ![t] = @ + 1]
    /\ UNCHANGED <<lkAvail, lkCache, lkCity, lkStored, outsideLookup>>

\* _nominatim_cache[cache_key] = addresses; return addresses
LookupStore(t) ==
    /\ lkPc[t] = "store"
    /\ lkCache' = lkCache \cup {cache_key(lkCity[t], Country)}
    /\ lkStored' = [lkStored EXCEPT ![cache_key(lkCity[t], Country)] = @ + 1]
    /\ lkPc' = [lkPc EXCEPT ![t] = "idle"]
    /\ lkDone' = [lkDone EXCEPT ![t] = @ + 1]
    /\ UNCHANGED <<lkAvail, lkCity, outsideLookup>>

LookupNext ==
    \E t \in Threads : LookupCall(t) \/ LookupRequest(t) \/ LookupStore(t)

LookupSpec == LookupInit /\ [][LookupNext]_vars

\* ------------------------------- two calls from the same random state
TwinInit ==
    /\ GenStart /\ twRun = 1 /\ twSeed \in 0..(RngStates - 1) /\ rng = twSeed
    /\ twFirst = <<>>
    /\ CalcIdle /\ ParseIdle /\ RuleIdle /\ CandIdle /\ ExtIdle

\* the first call has returned: keep its list and call generate_name_variations
\* again with the same arguments, the random source put back to its state at
\* the start of the first call
TwinRestart ==
    /\ twRun = 1 /\ pc = "done"
    /\ twFirst' = variations /\ twRun' = 2 /\ rng' = twSeed
    /\ pc' = "start" /\ variations' = <<>> /\ origin' = <<>>
    /\ lname' = <<>> /\ lcount' = 0 /\ lvars' = <<>> /\ lorig' = <<>>
    /\ ri' = 1 /\ rvars' = <<>> /\ ocount' = 0 /\ ovars' = <<>> /\ attempts' = 0
    /\ scount' = 0 /\ svars' = <<>> /\ trace' = <<"Parsed">>
    /\ UNCHANGED <<name, vc, pct, rules, unidecodeOk, twSeed, calcVars, parseVars,
                   ruleVars, candVars, extVars>>

TwinNext ==
    \/ Start \/ RuleStep \/ Phonetic
    \/ OrthoSub \/ OrthoIns \/ OrthoDel \/ OrthoExit \/ LatinReturn
    \/ ScriptFill \/ ScriptExit
    \/ EnsureStep \/ EnsureReturn
    \/ TwinRestart

TwinSpec == TwinInit /\ [][TwinNext]_vars

\* ------------------------------------------------- rule-count computations
CalcPercents == 0..100

CalcInputs ==
    /\ calcIn \in (1..MaxCalcCount) \X CalcPercents
    /\ calcOut = <<>>

CalcInit ==
    GenIdle /\ CalcInputs /\ ParseIdle /\ RuleIdle /\ CandIdle /\ ExtIdle

\* the rule share as computed by _generate_latin_variations (name.py), by
\* calculate_rule_count (parse_query.py) and by build_ollama_prompt
CalculateRuleCount ==
    /\ calcOut = <<>>
    /\ calcOut' = [orchestrator |-> rule_count(calcIn[1], calcIn[2]),
                   helper |-> calculate_rule_count(calcIn[1], calcIn[2]),
                   prompt |-> calculate_rule_count(calcIn[1], calcIn[2])]
    /\ UNCHANGED <<genVars, calcIn, parseVars, ruleVars, candVars, extVars>>

CalcNext == CalculateRuleCount

CalcSpec == CalcInit /\ [][CalcNext]_vars

\* ================================================== parse_query_template
\* The instruction text is a sequence of tokens: words (lower-cased, as all
\* matching is case-insensitive), runs of digits, runs of digits followed by
\* '%', double-quoted texts and the punctuation marks ( ) , . : as words.
\* Tokens are separated by white space, except that ) , . : follow the previous
\* token directly and ( is followed directly by the next token.
W(w) == <<"w", w, 0>>
N(n) == <<"n", "", n>>
P(n) == <<"p", "", n>>
Q(w) == <<"q", w, 0>>

\* pattern elements: (\d+) and (\d+)%
ANYNUM == <<"n", "", 0 - 1>>
ANYPCT == <<"p", "", 0 - 1>>

ElemMatches(e, t) == IF e \in {ANYNUM, ANYPCT} THEN t[1] = e[1] ELSE t = e

AltMatchesAt(alt, txt, i) ==
    /\ i + Len(alt) - 1 <= Len(txt)
    /\ \A k \in 1..Len(alt) : ElemMatches(alt[k], txt[i + k - 1])

\* re.search(pattern, text) finds a match; a pattern with an optional part is
\* the set of its alternatives
PatternMatches(pat, txt) ==
    \E alt \in pat : \E i \in 1..Len(txt) : AltMatchesAt(alt, txt, i)

\* position of the leftmost match
MatchStart(pat, txt) ==
    CHOOSE i \in 1..Len(txt) :
      /\ \E alt \in pat : AltMatchesAt(alt, txt, i)
      /\ \A j \in 1..(i - 1) : \A alt \in pat : ~AltMatchesAt(alt, txt, j)

\* int(match.group(1)) of the leftmost match
Group1(pat, txt) ==
    LET i == MatchStart(pat, txt)
        alt == CHOOSE a \in pat : AltMatchesAt(a, txt, i)
        k == CHOOSE k \in 1..Len(alt) : alt[k] \in {ANYNUM, ANYPCT}
    IN txt[i + k - 1][3]

None == 0 - 1

\* a run of more than 310 digits: int() converts it, but the quotient by 100
\* is too large for a float and the division raises OverflowError
Huge == 0 - 2

count_patterns ==
    << {<<W("generate"), W("exactly"), ANYNUM, W("variations")>>,
        <<W("generate"), W("exactly"), ANYNUM, W("name"), W("variations")>>},
       {<<W("generate"), ANYNUM, W("variations")>>,
        <<W("generate"), ANYNUM, W("name"), W("variations")>>},
       {<<W("exactly"), ANYNUM, W("variations")>>,
        <<W("exactly"), ANYNUM, W("name"), W("variations")>>},
       {<<ANYNUM, W("variations"), W("of")>>} >>

rule_pct_patterns ==
    << {<<W("approximately"), ANYPCT, W("of")>>},
       {<<W("also"), W("include"), ANYPCT, W("of")>>},
       {<<ANYPCT, W("of"), W("the"), W("total")>>},
       {<<ANYPCT, W("of"), W("variations")>>},
       {<<W("include"), ANYPCT>>},
       {<<ANYPCT, W("should"), W("follow")>>} >>

RECURSIVE FirstMatch(_, _, _)
\* for pattern in patterns: match = re.search(...); if match: return int(group 1)
FirstMatch(pats, txt, k) ==
    IF k > Len(pats) THEN None
    ELSE IF PatternMatches(pats[k], txt) THEN Group1(pats[k], txt)
    ELSE FirstMatch(pats, txt, k + 1)

\* the match that starts leftmost in the text, whatever its pattern
LeftmostMatch(pats, txt) ==
    IF \E k \in 1..Len(pats) : PatternMatches(pats[k], txt)
    THEN LET k == CHOOSE k \in 1..Len(pats) :
                    /\ PatternMatches(pats[k], txt)
                    /\ \A j \in 1..Len(pats) :
                         PatternMatches(pats[j], txt) =>
                           \/ MatchStart(pats[k], txt) < MatchStart(pats[j], txt)
                           \/ (MatchStart(pats[k], txt) = MatchStart(pats[j], txt) /\ k <= j)
         IN Group1(pats[k], txt)
    ELSE None

\* extract_variation_count that lets the position in the text decide
extract_variation_count_Leftmost(txt) == LeftmostMatch(count_patterns, txt)

extract_variation_count(txt) == FirstMatch(count_patterns, txt, 1)

\* the percent matched; the caller divides by 100
extract_rule_percentage(txt) == FirstMatch(rule_pct_patterns, txt, 1)

\* n / 100
Frac(n) == [num |-> n, den |-> 100]

\* the division that built fr raised OverflowError
Overflows(fr) == fr.num = Huge

\* filling the mapping raised OverflowError
MappingOverflows(d) == \E key \in DOMAIN d : Overflows(d[key])

RuleTriggers ==
    <<
       <<"replace_spaces_with_special_characters",
         {<<W("replace"), W("spaces"), W("with"), W("special"), W("characters")>>,
          <<W("replace"), W("spaces"), W("with"), W("random"), W("special"), W("characters")>>}>>,
       <<"replace_double_letters",
         {<<W("replace"), W("double"), W("letters")>>,
          <<W("replace"), W("double"), W("letters"), W("with"), W("single"), W("letter")>>}>>,
       <<"replace_random_vowels",
         {<<W("replace"), W("random"), W("vowels")>>,
          <<W("replace"), W("vowels"), W("with"), W("different"), W("vowels")>>}>>,
       <<"replace_random_consonants",
         {<<W("replace"), W("random"), W("consonants")>>,
          <<W("replace"), W("consonants"), W("with"), W("different"), W("consonants")>>}>>,
       <<"swap_adjacent_consonants",
         {<<W("swap"), W("adjacent"), W("consonants")>>}>>,
       <<"swap_adjacent_syllables",
         {<<W("swap"), W("adjacent"), W("syllables")>>}>>,
       <<"swap_random_letter",
         {<<W("swap"), W("random"), W("letter")>>,
          <<W("swap"), W("random"), W("adjacent"), W("letters")>>}>>,
       <<"delete_random_letter",
         {<<W("delete"), W("a"), W("random"), W("letter")>>,
          <<W("delete"), W("random"), W("letter")>>}>>,
       <<"remove_random_vowel",
         {<<W("remove"), W("random"), W("vowel")>>,
          <<W("remove"), W("a"), W("random"), W("vowel")>>}>>,
       <<"remove_random_consonant",
         {<<W("remove"), W("random"), W("consonant")>>,
          <<W("remove"), W("a"), W("random"), W("consonant")>>}>>,
       <<"remove_all_spaces",
         {<<W("remove"), W("all"), W("spaces")>>,
          <<W("remove"), W("spaces")>>}>>,
       <<"duplicate_random_letter",
         {<<W("duplicate"), W("a"), W("random"), W("letter")>>,
          <<W("duplicate"), W("random"), W("letter")>>}>>,
       <<"insert_random_letter",
         {<<W("insert"), W("random"), W("letter")>>,
          <<W("insert"), W("a"), W("random"), W("letter")>>}>>,
       <<"add_title_prefix",
         {<<W("add"), W("a"), W("title"), W("prefix")>>,
          <<W("title"), W("prefix")>>,
          <<W("add"), W("title"), W("prefix")>>}>>,
       <<"add_title_suffix",
         {<<W("add"), W("a"), W("title"), W("suffix")>>,
          <<W("title"), W("suffix")>>,
          <<W("add"), W("title"), W("suffix")>>}>>,
       <<"initial_only_first_name",
         {<<W("use"), W("first"), W("name"), W("initial")>>,
          <<W("first"), W("name"), W("initial"), W("with"), W("last"), W("name")>>}>>,
       <<"shorten_to_initials",
         {<<W("convert"), W("name"), W("to"), W("initials")>>,
          <<W("shorten"), W("name"), W("to"), W("initials")>>}>>,
       <<"abbreviate_name_parts",
         {<<W("abbreviate"), W("name"), W("parts")>>,
          <<W("abbreviate")>>,
          <<W("shorten"), W("name"), W("to"), W("abbreviations")>>}>>,
       <<"reorder_name_parts",
         {<<W("reorder"), W("name"), W("parts")>>,
          <<W("reorder"), W("parts")>>,
          <<W("name"), W("parts"), W("permutations")>>}>>,
       <<"transliterate",
         {<<W("transliterate")>>}>>,
       <<"add_special_characters",
         {<<W("add"), W("special"), W("characters")>>}>>
    >>

RECURSIVE RulesFrom(_, _)
RulesFrom(txt, k) ==
    IF k > Len(RuleTriggers) THEN <<>>
    ELSE (IF \E phrase \in RuleTriggers[k][2] : Contains(txt, phrase)
          THEN <<RuleTriggers[k][1]>> ELSE <<>>) \o RulesFrom(txt, k + 1)

extract_rules(txt) == RulesFrom(txt, 1)

\* least position >= from where pred holds, 0 when there is none
FirstPos(txt, from, pred(_)) ==
    IF \E i \in from..Len(txt) : pred(i)
    THEN CHOOSE i \in from..Len(txt) : pred(i) /\ \A j \in from..(i - 1) : ~pred(j)
    ELSE 0

\* similarity pattern 1: <field> similarity ( ... ), group 1 is the non-empty
\* text between the parentheses; the result is <<matched, similarity_text>>
SimPattern1(field, txt) ==
    LET close(i) == FirstPos(txt, i + 3, LAMBDA j : txt[j] = W(")"))
        ok(i) == /\ i + 2 <= Len(txt)
                 /\ txt[i] = W(field) /\ txt[i + 1] = W("similarity")
                 /\ txt[i + 2] = W("(")
                 /\ close(i) >= i + 4
        i0 == FirstPos(txt, 1, ok)
    IN IF i0 = 0 THEN <<FALSE, <<>>>>
       ELSE <<TRUE, SubSeq(txt, i0 + 3, close(i0) - 1)>>

\* similarity pattern 2: <field> similarity, colons or white space, then
\* group 1, the non-empty text up to the next full stop
SimPattern2(field, txt) ==
    LET start(i) == FirstPos(txt, i + 2, LAMBDA j : txt[j] # W(":"))
        stop(i) == FirstPos(txt, start(i), LAMBDA j : txt[j] = W("."))
        ok(i) == /\ i + 2 <= Len(txt)
                 /\ txt[i] = W(field) /\ txt[i + 1] = W("similarity")
                 /\ txt[i + 2] \notin {W(")"), W(","), W(".")}
                 /\ start(i) # 0
                 /\ txt[start(i)] # W(".")
        i0 == FirstPos(txt, 1, ok)
    IN IF i0 = 0 THEN <<FALSE, <<>>>>
       ELSE <<TRUE, SubSeq(txt, start(i0),
                           IF stop(i0) = 0 THEN Len(txt) ELSE stop(i0) - 1)>>

\* position of the percent of the first "<tier>[: ]+<digits>%" at or after
\* from, 0 when there is none
TierThenPct(txt, tier, from) ==
    LET pctAfter(a) == FirstPos(txt, a + 1, LAMBDA j : txt[j] # W(":"))
        ok(a) == /\ txt[a] = W(tier)
                 /\ pctAfter(a) # 0
                 /\ txt[pctAfter(a)][1] = "p"
        a0 == FirstPos(txt, from, ok)
    IN IF from = 0 \/ a0 = 0 THEN 0 ELSE pctAfter(a0)

\* similarity pattern 3: <field> .. Light <pct> .. Medium <pct> .. Far <pct>;
\* three groups, so the similarity text is the whole match
SimPattern3(field, txt) ==
    LET i0 == FirstPos(txt, 1, LAMBDA i : txt[i] = W(field))
        l == IF i0 = 0 THEN 0 ELSE TierThenPct(txt, "light", i0 + 1)
        m == IF l = 0 THEN 0 ELSE TierThenPct(txt, "medium", l + 1)
        f == IF m = 0 THEN 0 ELSE TierThenPct(txt, "far", m + 1)
    IN IF f = 0 THEN <<FALSE, <<>>>> ELSE <<TRUE, SubSeq(txt, i0, f)>>

SimPattern(k, field, txt) ==
    CASE k = 1 -> SimPattern1(field, txt)
      [] k = 2 -> SimPattern2(field, txt)
      [] k = 3 -> SimPattern3(field, txt)

\* a tier search that expects the tier name before its percent
TierPercent_TierFirst(seg, tier) ==
    LET ok(a) == a + 1 <= Len(seg) /\ seg[a] = W(tier) /\ seg[a + 1][1] = "p"
        a0 == FirstPos(seg, 1, ok)
    IN IF a0 = 0 THEN None ELSE seg[a0 + 1][3]

\* re.search(r'(\d+)%\s*<tier>', similarity_text): the percent, or None
TierPercent(seg, tier) ==
    LET ok(a) == a + 1 <= Len(seg) /\ seg[a][1] = "p" /\ seg[a + 1] = W(tier)
        a0 == FirstPos(seg, 1, ok)
    IN IF a0 = 0 THEN None ELSE seg[a0][3]

TierNames == {<<"Light", "light">>, <<"Medium", "medium">>, <<"Far", "far">>}

\* the mapping filled from one similarity text
Tiers(seg) ==
    LET found == {t \in TierNames : TierPercent(seg, t[2]) # None}
    IN [key \in {t[1] : t \in found} |->
          Frac(TierPercent(seg, (CHOOSE t \in found : t[1] = key)[2]))]

RECURSIVE SimilarityLoop(_, _, _)
\* for pattern in patterns: if match: fill the mapping; if it is non-empty: break
SimilarityLoop(field, txt, k) ==
    IF k > 3 THEN <<>>
    ELSE LET m == SimPattern(k, field, txt)
         IN IF m[1] /\ Tiers(m[2]) # <<>> THEN Tiers(m[2])
            ELSE SimilarityLoop(field, txt, k + 1)

extract_phonetic_similarity(txt) == SimilarityLoop("phonetic", txt, 1)

extract_orthographic_similarity(txt) == SimilarityLoop("orthographic", txt, 1)

\* For the seed "<name>" ONLY: the quoted name, or "None"
extract_uav_seed(txt) ==
    IF \E i \in 1..Len(txt) :
         /\ i + 4 <= Len(txt)
         /\ SubSeq(txt, i, i + 2) = <<W("for"), W("the"), W("seed")>>
         /\ txt[i + 3][1] = "q" /\ txt[i + 4] = W("only")
    THEN LET i == CHOOSE i \in 1..Len(txt) :
                    /\ i + 4 <= Len(txt)
                    /\ SubSeq(txt, i, i + 2) = <<W("for"), W("the"), W("seed")>>
                    /\ txt[i + 3][1] = "q" /\ txt[i + 4] = W("only")
                    /\ \A j \in 1..(i - 1) :
                         ~(/\ SubSeq(txt, j, j + 2) = <<W("for"), W("the"), W("seed")>>
                           /\ txt[j + 3][1] = "q" /\ txt[j + 4] = W("only"))
         IN txt[i + 3][2]
    ELSE "None"

\* an int(...) / 100 of the extraction helpers raises OverflowError
ParseRaises(txt) ==
    \/ extract_rule_percentage(txt) = Huge
    \/ MappingOverflows(extract_phonetic_similarity(txt))
    \/ MappingOverflows(extract_orthographic_similarity(txt))

\* parse_query_template that stores whatever the count extraction returned
parse_query_template_NoGuard(txt) ==
    IF ParseRaises(txt) THEN [raised |-> "OverflowError"]
    ELSE
    [variation_count |-> extract_variation_count(txt),
     rule_percentage |-> IF extract_rule_percentage(txt) # None
                         THEN Frac(extract_rule_percentage(txt)) ELSE Frac(0),
     rules |-> extract_rules(txt),
     phonetic_similarity |-> extract_phonetic_similarity(txt),
     orthographic_similarity |-> extract_orthographic_similarity(txt),
     uav_seed_name |-> extract_uav_seed(txt),
     original_query |-> txt]

\* the requirements, or the exception that leaves the function
parse_query_template(txt) ==
    IF ParseRaises(txt) THEN [raised |-> "OverflowError"]
    ELSE
    [variation_count |-> IF extract_variation_count(txt) \notin {None, 0}
                         THEN extract_variation_count(txt) ELSE 15,
     rule_percentage |-> IF extract_rule_percentage(txt) # None
                         THEN Frac(extract_rule_percentage(txt)) ELSE Frac(0),
     rules |-> extract_rules(txt),
     phonetic_similarity |-> extract_phonetic_similarity(txt),
     orthographic_similarity |-> extract_orthographic_similarity(txt),
     uav_seed_name |-> extract_uav_seed(txt),
     original_query |-> txt]

\* the call returned a requirements dictionary
Returned(r) == "variation_count" \in DOMAIN r

\* ---------------------------------------------------------- parser inputs
Phrases ==
    { <<W("generate"), W("exactly"), N(11), W("variations")>>,
      <<W("generate"), N(5), W("name"), W("variations")>>,
      <<W("exactly"), N(7), W("variations")>>,
      <<N(3), W("variations"), W("of")>>,
      <<W("generate"), N(0), W("variations")>>,
      <<W("approximately"), P(51), W("of")>>,
      <<W("also"), W("include"), P(30), W("of")>>,
      <<P(150), W("of"), W("the"), W("total")>>,
      <<P(20), W("of"), W("variations")>>,
      <<W("include"), P(10)>>,
      <<P(40), W("should"), W("follow")>>,
      <<W("phonetic"), W("similarity"), W("("), P(30), W("light"), W(","), P(40), W("medium"), W(","), P(30), W("far"), W(")")>>,
      <<W("phonetic"), W("similarity"), W("("), W("high"), W(")")>>,
      <<W("phonetic"), W("similarity"), W(":"), P(60), W("light"), W(".")>>,
      <<W("phonetic"), W("light"), W(":"), P(30), W("medium"), W(":"), P(40), W("far"), W(":"), P(30)>>,
      <<W("orthographic"), W("similarity"), W("("), P(50), W("light"), W(","), P(50), W("medium"), W(")")>>,
      <<W("orthographic"), W("similarity"), W("("), W("balanced"), W(")")>>,
      <<W("orthographic"), W("similarity"), W(":"), P(70), W("far"), W(".")>>,
      <<W("reorder"), W("name"), W("parts")>>,
      <<W("abbreviate")>>,
      <<W("for"), W("the"), W("seed"), Q("john"), W("only")>>,
      <<W("include"), P(Huge)>>,
      <<W(".")>> }

RECURSIVE Concat(_)
Concat(seqs) == IF seqs = <<>> THEN <<>> ELSE seqs[1] \o Concat(Tail(seqs))

\* the sample query of the parser's __main__ block
sample_query ==
    <<W("generate"), W("exactly"), N(11), W("variations"), W("of"), W("{name}"),
      W("."), W("ensure"), W("the"), W("generated"), W("variations"),
      W("reflect"), W("phonetic"), W("similarity"), W("("), P(30), W("light"),
      W(","), P(40), W("medium"), W(","), P(30), W("far"), W(")"), W("and"),
      W("orthographic"), W("similarity"), W("("), P(50), W("light"), W(","),
      P(50), W("medium"), W(")"), W("."), W("approximately"), P(51), W("of"),
      W("all"), W("generated"), W("variations"), W("should"), W("follow"),
      W("these"), W("rule-based"), W("transformations"), W(":"), W("reorder"),
      W("name"), W("parts"), W(".")>>

\* the instruction texts: up to MaxPhrases phrases, one after the other, and
\* the sample query
Texts == UNION { {Concat(f) : f \in [1..n -> Phrases]} : n \in 0..MaxPhrases }
         \cup {sample_query}

ParseInputs == text \in Texts /\ req = <<>>

ParseInit ==
    GenIdle /\ CalcIdle /\ ParseInputs /\ RuleIdle /\ CandIdle /\ ExtIdle

\* the call parse_query_template(query_template)
ParseQueryTemplate ==
    /\ req = <<>>
    /\ req' = parse_query_template(text)
    /\ UNCHANGED <<genVars, calcVars, text, ruleVars, candVars, extVars>>

ParseNext == ParseQueryTemplate

ParseSpec == ParseInit /\ [][ParseNext]_vars

\* ================================================= rule_based_variations.py
\* The transforms of the dispatch table: each operator is the set of texts the
\* function can return (its random draws range over all their values).
Vowels5 == {"a", "e", "i", "o", "u"}

\* str.isalpha() on one character
IsAlpha(c) ==
    \/ \E p \in LowerPairs : c \in {p[1], p[2]}
    \/ c \in ArabicChars \cup CyrillicChars \cup CJKChars

\* str.isupper() on one character
IsUpper(c) == \E p \in LowerPairs : c = p[1]

\* 0-based indices of the characters of s that satisfy pred
Indices(s, pred(_)) == {i \in 0..(Len(s) - 1) : pred(s[i + 1])}

IsVowel(c) == LowerChar(c) \in Vowels5
IsConsonant(c) == IsAlpha(c) /\ LowerChar(c) \notin Vowels5

\* the smallest element of a non-empty set of integers
MinOf(S) == CHOOSE x \in S : \A y \in S : x <= y

apply_replace_spaces_with_special_chars(s) ==
    IF ~Contains(s, <<" ">>) THEN {s}
    ELSE {Replace(s, <<" ">>, <<c>>) : c \in {"_", "-", "."}}

apply_delete_random_letter(s) ==
    IF Len(s) <= 1 THEN {s} ELSE {DeleteAt(s, idx) : idx \in 0..(Len(s) - 1)}

apply_replace_double_letters(s) ==
    LET hits == {i \in 0..(Len(s) - 2) :
                   LowerChar(s[i + 1]) = LowerChar(s[i + 2]) /\ IsAlpha(s[i + 1])}
    IN IF hits = {} THEN {s} ELSE {DeleteAt(s, MinOf(hits) + 1)}

apply_swap_adjacent_consonants(s) ==
    LET hits == {i \in 0..(Len(s) - 2) :
                   /\ IsConsonant(LowerChar(s[i + 1]))
                   /\ IsConsonant(LowerChar(s[i + 2]))
                   /\ LowerChar(s[i + 1]) # LowerChar(s[i + 2])}
    IN IF hits = {} THEN {s} ELSE {SwapAt(s, MinOf(hits))}

apply_swap_adjacent_syllables(s) ==
    LET parts == Split(s)
        n == Len(parts)
    IN IF n >= 2
       THEN {Join(<<parts[n]>> \o SubSeq(parts, 2, n - 1) \o <<parts[1]>>, <<" ">>)}
       ELSE IF n = 1 /\ Len(parts[1]) \div 2 > 0
       THEN {Drop(parts[1], Len(parts[1]) \div 2) \o
             Take(parts[1], Len(parts[1]) \div 2)}
       ELSE {s}

apply_add_title_suffix(s) ==
    {s \o <<" ">> \o t : t \in {<<"J", "r", ".">>, <<"S", "r", ".">>,
                                <<"I", "I", "I">>, <<"I", "I">>}}

apply_abbreviate_name_parts(s) ==
    LET parts == Split(s)
    IN IF Len(parts) >= 2
       THEN {Join(<<<<parts[1][1], ".">>>> \o Tail(parts), <<" ">>)}
       ELSE IF Len(parts) = 1 /\ Len(parts[1]) > 1
       THEN {<<parts[1][1], ".">>}
       ELSE {Join(parts, <<" ">>)}

\* the texts obtained from s by replacing the characters at 1 or 2 of the
\* indices idxs (1 only when there is 1), each by one of alt(character)
ReplaceSome(s, idxs, alt(_)) ==
    LET sizes == {Min(1, Cardinality(idxs)), Min(2, Cardinality(idxs))}
        picks == {T \in SUBSET idxs : Cardinality(T) \in sizes}
    IN UNION { {[i \in 1..Len(s) |-> IF (i - 1) \in T THEN f[i - 1] ELSE s[i]] :
                  f \in {g \in [T -> UNION {alt(s[j + 1]) : j \in T}] :
                           \A j \in T : g[j] \in alt(s[j + 1])}} :
               T \in picks }

\* the vowels a vowel can be replaced by: the other four, in its own case
OtherVowels(c) ==
    IF c \in Vowels5 THEN Vowels5 \ {c}
    ELSE IF LowerChar(c) \in Vowels5 /\ IsUpper(c)
    THEN {UpperChar(v) : v \in Vowels5 \ {LowerChar(c)}}
    ELSE {c}

apply_replace_random_vowels(s) ==
    IF Indices(s, IsVowel) = {} THEN {s}
    ELSE ReplaceSome(s, Indices(s, IsVowel), OtherVowels)

apply_remove_all_spaces(s) == {Replace(s, <<" ">>, <<>>)}

apply_reorder_name_parts(s) ==
    LET parts == Split(s)
        n == Len(parts)
    IN IF n >= 2
       THEN {Join(<<parts[n]>> \o SubSeq(parts, 2, n - 1) \o <<parts[1]>>, <<" ">>),
             Join(Reverse(parts), <<" ">>)}
       ELSE IF n = 1 THEN {Reverse(parts[1])}
       ELSE {s}

\* the keys of the consonants table, lower case
TableConsonants == {"b", "c", "d", "f", "g", "h", "j", "k", "l", "m", "n", "p",
                    "r", "s", "t", "v", "w", "z"}

OtherConsonants(c) ==
    IF c \in TableConsonants THEN TableConsonants \ {c}
    ELSE IF LowerChar(c) \in TableConsonants /\ IsUpper(c)
    THEN {UpperChar(v) : v \in TableConsonants \ {LowerChar(c)}}
    ELSE {c}

apply_replace_random_consonants(s) ==
    IF Indices(s, IsConsonant) = {} THEN {s}
    ELSE ReplaceSome(s, Indices(s, IsConsonant), OtherConsonants)

\* the indices apply_swap_random_letter chooses from
swap_candidates(s) ==
    {i \in 0..(Len(s) - 2) :
       /\ IsAlpha(s[i + 1]) /\ IsAlpha(s[i + 2])
       /\ LowerChar(s[i + 1]) # LowerChar(s[i + 2])}

\* a swap that draws its index among all adjacent pairs
apply_swap_random_letter_AnyPair(s) ==
    IF Len(s) < 2 THEN {s} ELSE {SwapAt(s, idx) : idx \in 0..(Len(s) - 2)}

apply_swap_random_letter(s) ==
    IF Len(s) < 2 \/ swap_candidates(s) = {} THEN {s}
    ELSE {SwapAt(s, idx) : idx \in swap_candidates(s)}

apply_remove_random_vowel(s) ==
    IF Indices(s, IsVowel) = {} THEN {s}
    ELSE {DeleteAt(s, idx) : idx \in Indices(s, IsVowel)}

apply_remove_random_consonant(s) ==
    IF Indices(s, IsConsonant) = {} THEN {s}
    ELSE {DeleteAt(s, idx) : idx \in Indices(s, IsConsonant)}

apply_duplicate_random_letter(s) ==
    IF Indices(s, IsAlpha) = {} THEN {s}
    ELSE {InsertAt(s, idx, <<s[idx + 1]>>) : idx \in Indices(s, IsAlpha)}

AsciiLower == {"a", "b", "c", "d", "e", "f", "g", "h", "i", "j", "k", "l", "m",
               "n", "o", "p", "q", "r", "s", "t", "u", "v", "w", "x", "y", "z"}

apply_insert_random_letter(s) ==
    IF Len(s) = 0 THEN {<<c>> : c \in AsciiLower}
    ELSE {InsertAt(s, idx, <<IF idx > 0 /\ IsUpper(s[idx]) THEN UpperChar(c) ELSE c>>) :
            idx \in 0..Len(s), c \in AsciiLower}

apply_add_title_prefix(s) ==
    {t \o <<" ">> \o s : t \in {<<"M", "r", ".">>, <<"M", "r", "s", ".">>,
                                <<"M", "s", ".">>, <<"D", "r", ".">>}}

apply_initial_only_first_name(s) ==
    LET parts == Split(s)
    IN IF Len(parts) >= 2
       THEN {Join(<<<<parts[1][1], ".">>>> \o Tail(parts), <<" ">>)}
       ELSE IF Len(parts) = 1 /\ Len(parts[1]) > 1
       THEN {<<parts[1][1], ".">>}
       ELSE {s}

apply_shorten_to_initials(s) ==
    LET parts == Split(s)
    IN IF Len(parts) >= 2
       THEN {Join([i \in 1..Len(parts) |-> <<parts[i][1], ".">>], <<" ">>)}
       ELSE IF Len(parts) = 1 /\ Len(parts[1]) > 1
       THEN {<<parts[1][1], ".">>}
       ELSE {s}

\* "'" inserted at an index drawn from 1..len-1
add_special_characters_legacy(s) ==
    IF Len(s) > 1 THEN {InsertAt(s, idx, <<"'">>) : idx \in 1..(Len(s) - 1)}
    ELSE {s}

reverse_name_legacy(s) == {Reverse(s)}

\* every letter independently upper or lower
capitalize_random_letters_legacy(s) ==
    {[i \in 1..Len(s) |-> IF up[i] THEN UpperChar(s[i]) ELSE LowerChar(s[i])] :
       up \in [1..Len(s) -> BOOLEAN]}

\* str.title(): a cased character is upper-cased after an uncased one (or at
\* the start) and lower-cased after a cased one
Title(s) ==
    [i \in 1..Len(s) |->
       IF i > 1 /\ LowerChar(s[i - 1]) # UpperChar(s[i - 1])
       THEN LowerChar(s[i]) ELSE UpperChar(s[i])]

change_case_pattern_legacy(s) == IF Len(s) > 1 THEN {Title(s)} ELSE {s}

accent_map(c) ==
    CASE c = "a" -> "LA_a_grave" [] c = "e" -> "LA_e_acute"
      [] c = "i" -> "LA_i_acute" [] c = "o" -> "LA_o_acute"
      [] c = "u" -> "LA_u_acute" [] c = "A" -> "LA_A_grave"
      [] c = "E" -> "LA_E_acute" [] c = "I" -> "LA_I_acute"
      [] c = "O" -> "LA_O_acute" [] c = "U" -> "LA_U_acute"
      [] OTHER -> c

add_accents_legacy(s) ==
    LET hits == Indices(s, LAMBDA c : accent_map(c) # c)
    IN IF hits = {} THEN {s}
       ELSE {[i \in 1..Len(s) |-> IF i - 1 = MinOf(hits) THEN accent_map(s[i])
                                  ELSE s[i]]}

\* the module imports neither unidecode nor UNIDECODE_AVAILABLE: evaluating
\* the name raises NameError
remove_accents_legacy(s) == {<<"NameError">>}

add_hyphens_legacy(s) ==
    IF Len(Split(s)) >= 2 THEN {Join(Split(s), <<"-">>)} ELSE {s}

remove_hyphens_legacy(s) == {Replace(s, <<"-">>, <<" ">>)}

legacy_phonetic_rules ==
    << <<<<"p", "h">>, <<"f">>>>, <<<<"f">>, <<"p", "h">>>>,
       <<<<"c">>, <<"k">>>>, <<<<"k">>, <<"c">>>>,
       <<<<"s">>, <<"z">>>>, <<<<"z">>, <<"s">>>>,
       <<<<"i">>, <<"y">>>>, <<<<"y">>, <<"i">>>> >>

\* the first rule whose old text occurs in name.lower() is applied with
\* name.replace(old, new), which is case-sensitive
phonetic_substitution_legacy(s) ==
    LET hits == {k \in 1..Len(legacy_phonetic_rules) :
                   Contains(Lower(s), legacy_phonetic_rules[k][1])}
    IN IF hits = {} THEN {s}
       ELSE {Replace(s, legacy_phonetic_rules[MinOf(hits)][1],
                     legacy_phonetic_rules[MinOf(hits)][2])}

LegacyConsonants == {"b", "c", "d", "f", "g", "h", "j", "k", "l", "m", "n", "p",
                     "q", "r", "s", "t", "v", "w", "x", "z"}

double_consonants_legacy(s) ==
    LET hits == Indices(s, LAMBDA c : LowerChar(c) \in LegacyConsonants)
    IN IF hits = {} THEN {s}
       ELSE {InsertAt(s, MinOf(hits) + 1, <<s[MinOf(hits) + 1]>>)}

simplify_consonants_legacy(s) ==
    LET hits == {i \in 0..(Len(s) - 2) : s[i + 1] = s[i + 2] /\ IsAlpha(s[i + 1])}
    IN IF hits = {} THEN {s} ELSE {DeleteAt(s, MinOf(hits))}

\* the keys of rule_map
RuleMapKeys ==
    {"replace_spaces_with_special_characters",
     "replace_spaces_with_random_special_characters",
     "replace_double_letters", "replace_double_letters_with_single_letter",
     "replace_vowels", "replace_random_vowels",
     "replace_random_vowel_with_random_vowel", "replace_random_consonants",
     "replace_random_consonant_with_random_consonant",
     "swap_adjacent_consonants", "swap_adjacent_syllables", "swap_random_letter",
     "delete_letter", "delete_random_letter", "remove_random_vowel",
     "remove_random_consonant", "remove_all_spaces", "duplicate_letters",
     "duplicate_random_letter", "duplicate_random_letter_as_double_letter",
     "insert_random_letter", "add_title_prefix", "add_random_leading_title",
     "add_title_suffix", "add_random_trailing_title", "add_special_characters",
     "initial_only_first_name", "shorten_to_initials", "shorten_name_to_initials",
     "abbreviate_name_parts", "shorten_name_to_abbreviations",
     "reorder_name_parts", "name_parts_permutations", "reverse_name",
     "capitalize_random_letters", "change_case_pattern", "add_accents",
     "remove_accents", "add_hyphens", "remove_hyphens", "phonetic_substitution",
     "double_consonants", "simplify_consonants"}

\* rule_map[rule](name): the texts the mapped function can return, <<"NameError">>
\* when it raises
rule_map(rule, s) ==
    CASE rule \in {"replace_spaces_with_special_characters",
                   "replace_spaces_with_random_special_characters"} ->
           apply_replace_spaces_with_special_chars(s)
      [] rule \in {"replace_double_letters",
                   "replace_double_letters_with_single_letter"} ->
           apply_replace_double_letters(s)
      [] rule \in {"replace_vowels", "replace_random_vowels",
                   "replace_random_vowel_with_random_vowel"} ->
           apply_replace_random_vowels(s)
      [] rule \in {"replace_random_consonants",
                   "replace_random_consonant_with_random_consonant"} ->
           apply_replace_random_consonants(s)
      [] rule = "swap_adjacent_consonants" -> apply_swap_adjacent_consonants(s)
      [] rule = "swap_adjacent_syllables" -> apply_swap_adjacent_syllables(s)
      [] rule = "swap_random_letter" -> apply_swap_random_letter(s)
      [] rule \in {"delete_letter", "delete_random_letter"} ->
           apply_delete_random_letter(s)
      [] rule = "remove_random_vowel" -> apply_remove_random_vowel(s)
      [] rule = "remove_random_consonant" -> apply_remove_random_consonant(s)
      [] rule = "remove_all_spaces" -> apply_remove_all_spaces(s)
      [] rule \in {"duplicate_letters", "duplicate_random_letter",
                   "duplicate_random_letter_as_double_letter"} ->
           apply_duplicate_random_letter(s)
      [] rule = "insert_random_letter" -> apply_insert_random_letter(s)
      [] rule \in {"add_title_prefix", "add_random_leading_title"} ->
           apply_add_title_prefix(s)
      [] rule \in {"add_title_suffix", "add_random_trailing_title"} ->
           apply_add_title_suffix(s)
      [] rule = "add_special_characters" -> add_special_characters_legacy(s)
      [] rule = "initial_only_first_name" -> apply_initial_only_first_name(s)
      [] rule \in {"shorten_to_initials", "shorten_name_to_initials"} ->
           apply_shorten_to_initials(s)
      [] rule \in {"abbreviate_name_parts", "shorten_name_to_abbreviations"} ->
           apply_abbreviate_name_parts(s)
      [] rule \in {"reorder_name_parts", "name_parts_permutations"} ->
           apply_reorder_name_parts(s)
      [] rule = "reverse_name" -> reverse_name_legacy(s)
      [] rule = "capitalize_random_letters" -> capitalize_random_letters_legacy(s)
      [] rule = "change_case_pattern" -> change_case_pattern_legacy(s)
      [] rule = "add_accents" -> add_accents_legacy(s)
      [] rule = "remove_accents" -> remove_accents_legacy(s)
      [] rule = "add_hyphens" -> add_hyphens_legacy(s)
      [] rule = "remove_hyphens" -> remove_hyphens_legacy(s)
      [] rule = "phonetic_substitution" -> phonetic_substitution_legacy(s)
      [] rule = "double_consonants" -> double_consonants_legacy(s)
      [] rule = "simplify_consonants" -> simplify_consonants_legacy(s)

\* apply_rule_to_name with an unknown rule raising KeyError
apply_rule_to_name_Strict(s, rule) ==
    IF rule \in RuleMapKeys
    THEN {IF r = <<"NameError">> \/ r = <<>> THEN s ELSE r : r \in rule_map(rule, s)}
    ELSE {<<"KeyError">>}

\* apply_rule_to_name: the texts it can return.  An exception of the mapped
\* function is caught and the name returned, an empty result is replaced by
\* the name, an unknown rule returns the name.
apply_rule_to_name(s, rule) ==
    IF rule \in RuleMapKeys
    THEN {IF r = <<"NameError">> \/ r = <<>> THEN s ELSE r : r \in rule_map(rule, s)}
    ELSE {s}


RECURSIVE DedupLower(_, _)
\* the elements of list whose lower-cased text is not in seen and did not
\* occur earlier in the list
DedupLower(list, seen) ==
    IF list = <<>> THEN <<>>
    ELSE IF Lower(list[1]) \in seen THEN DedupLower(Tail(list), seen)
    ELSE <<list[1]>> \o DedupLower(Tail(list), seen \cup {Lower(list[1])})

\* _apply_single_rule of rule_based_variations.py: the lists it can return
rbv_apply_single_rule(s, rule, count) ==
    {Take(DedupLower(SelectSeq(calls, LAMBDA v : v # <<>> /\ v # s), {}), count) :
       calls \in [1..count -> apply_rule_to_name(s, rule)]}

\* ------------------------------------------------------ rule-engine inputs
Smith == <<"S", "m", "i", "t", "h">>

RuleTexts ==
    {Smith, <<"a", "A">>, <<"a", " ", "b">>, <<"a", "-", "b">>,
     <<"J", "o", "s", "LA_e_acute">>, <<"a", "a", "b">>, <<"x">>, <<>>, <<" ">>,
     <<"P", "h", "i">>}

RuleIds == RuleMapKeys \cup {"no_such_rule"}

GenRuleTexts == {Smith, <<"a", " ", "b">>}

GenRuleLists ==
    {<<>>, <<"swap_random_letter">>, <<"no_such_rule", "remove_all_spaces">>,
     <<"delete_letter", "no_such_rule", "reorder_name_parts">>}

RuleInputs ==
    /\ rresult = <<>> /\ gi = 1 /\ gvars = <<>> /\ gadded = <<>>
    /\ \/ /\ rpc = "call"
          /\ rname \in RuleTexts
          /\ rrules \in {<<r>> : r \in RuleIds}
          /\ rcount = 1
       \/ /\ rpc = "single"
          /\ rname \in RuleTexts
          /\ rrules = <<"swap_random_letter">>
          /\ rcount \in 1..MaxRuleCount
       \/ /\ rpc = "gen"
          /\ rname \in GenRuleTexts
          /\ rrules \in GenRuleLists
          /\ rcount \in 0..MaxRuleCount

RuleInit ==
    GenIdle /\ CalcIdle /\ ParseIdle /\ RuleInputs /\ CandIdle /\ ExtIdle

\* one call apply_rule_to_name(name, rule)
ApplyRuleToName ==
    /\ rpc = "call"
    /\ \E r \in apply_rule_to_name(rname, rrules[1]) : rresult' = r
    /\ rpc' = "called"
    /\ UNCHANGED <<rname, rrules, rcount, gi, gvars, gadded, outsideRule>>

\* one call _apply_single_rule(name, rule, count) of name.py
ApplySingleRule ==
    /\ rpc = "single"
    /\ \E rnd \in [1..rcount -> RuleRandoms(rname, rrules[1])] :
         gvars' = apply_single_rule(rname, rrules[1], rcount, rnd)
    /\ rpc' = "single_done"
    /\ UNCHANGED <<rname, rrules, rcount, rresult, gi, gadded, outsideRule>>

\* generate_rule_based_variations: if count <= 0 or not rules: return []
GenRuleEmpty ==
    /\ rpc = "gen"
    /\ rcount <= 0 \/ rrules = <<>>
    /\ gvars' = <<>>
    /\ rpc' = "returned"
    /\ UNCHANGED <<rname, rrules, rcount, rresult, gi, gadded, outsideRule>>

\* one iteration of "for rule in rules"
GenRuleStep ==
    /\ rpc = "gen"
    /\ rcount > 0 /\ rrules # <<>>
    /\ gi <= Len(rrules)
    /\ \E rule_vars \in rbv_apply_single_rule(rname, rrules[gi],
                                              variations_per_rule(rcount, rrules)) :
         /\ gvars' = AppendNew(gvars, rule_vars, {Lower(rname)}, rcount)
         /\ gadded' = Append(gadded, Len(gvars') - Len(gvars))
    /\ gi' = gi + 1
    /\ UNCHANGED <<rname, rrules, rcount, rpc, rresult, outsideRule>>

\* return variations
GenRuleReturn ==
    /\ rpc = "gen"
    /\ rcount > 0 /\ rrules # <<>>
    /\ gi > Len(rrules)
    /\ rpc' = "returned"
    /\ UNCHANGED <<rname, rrules, rcount, rresult, gi, gvars, gadded, outsideRule>>

RuleNext ==
    \/ ApplyRuleToName
    \/ ApplySingleRule
    \/ GenRuleEmpty
    \/ GenRuleStep
    \/ GenRuleReturn

RuleSpec == RuleInit /\ [][RuleNext]_vars

\* ============================================ non_rule_based_variations.py
\* ------------------------------------------------------ acceptance predicate
Digits == {"0", "1", "2", "3", "4", "5", "6", "7", "8", "9"}

\* a character of the regular-expression class \w
IsWord(c) == IsAlpha(c) \/ c \in Digits \/ c = "_"

\* \b between the characters k and k + 1 of txt (k = 0: before the first)
WordBoundary(txt, k) ==
    (k >= 1 /\ k <= Len(txt) /\ IsWord(txt[k])) #
    (k + 1 >= 1 /\ k + 1 <= Len(txt) /\ IsWord(txt[k + 1]))

\* re.search(r'\b' + re.escape(word) + r'\b', txt)
HasWord(txt, word) ==
    \E i \in 1..(Len(txt) - Len(word) + 1) :
       /\ SubSeq(txt, i, i + Len(word) - 1) = word
       /\ WordBoundary(txt, i - 1)
       /\ WordBoundary(txt, i + Len(word) - 1)

\* address_indicators of _looks_like_address
address_indicators ==
    {<<"s", "t", "r", "e", "e", "t">>, <<"s", "t">>,
     <<"a", "v", "e", "n", "u", "e">>, <<"a", "v", "e">>,
     <<"r", "o", "a", "d">>, <<"r", "d">>, <<"d", "r", "i", "v", "e">>,
     <<"d", "r">>, <<"l", "a", "n", "e">>, <<"l", "n">>,
     <<"c", "o", "u", "r", "t">>, <<"c", "t">>, <<"p", "l", "a", "c", "e">>,
     <<"p", "l">>, <<"b", "o", "u", "l", "e", "v", "a", "r", "d">>,
     <<"b", "l", "v", "d">>, <<"a", "p", "t">>,
     <<"a", "p", "a", "r", "t", "m", "e", "n", "t">>,
     <<"s", "u", "i", "t", "e">>, <<"u", "n", "i", "t">>,
     <<"f", "l", "o", "o", "r">>, <<"b", "u", "i", "l", "d", "i", "n", "g">>,
     <<"n", "o", "r", "t", "h">>, <<"s", "o", "u", "t", "h">>,
     <<"e", "a", "s", "t">>, <<"w", "e", "s", "t">>, <<"n">>, <<"s">>,
     <<"e">>, <<"w">>, <<"p", ".", "o", ".">>, <<"p", "o">>,
     <<"b", "o", "x">>, <<"c", "i", "t", "y">>, <<"t", "o", "w", "n">>,
     <<"z", "i", "p">>}

looks_like_address(txt) ==
    /\ txt # <<>>
    /\ \/ \E i \in 1..Len(txt) : txt[i] \in Digits
       \/ \E w \in address_indicators : HasWord(Lower(txt), w)

\* months of _looks_like_dob
months ==
    {<<"j", "a", "n", "u", "a", "r", "y">>,
     <<"f", "e", "b", "r", "u", "a", "r", "y">>, <<"m", "a", "r", "c", "h">>,
     <<"a", "p", "r", "i", "l">>, <<"m", "a", "y">>, <<"j", "u", "n", "e">>,
     <<"j", "u", "l", "y">>, <<"a", "u", "g", "u", "s", "t">>,
     <<"s", "e", "p", "t", "e", "m", "b", "e", "r">>,
     <<"o", "c", "t", "o", "b", "e", "r">>,
     <<"n", "o", "v", "e", "m", "b", "e", "r">>,
     <<"d", "e", "c", "e", "m", "b", "e", "r">>, <<"j", "a", "n">>,
     <<"f", "e", "b">>, <<"m", "a", "r">>, <<"a", "p", "r">>,
     <<"j", "u", "n">>, <<"j", "u", "l">>, <<"a", "u", "g">>,
     <<"s", "e", "p">>, <<"o", "c", "t">>, <<"n", "o", "v">>,
     <<"d", "e", "c">>}

\* date_words of _looks_like_dob
date_words ==
    {<<"b", "i", "r", "t", "h">>, <<"b", "i", "r", "t", "h", "d", "a", "y">>,
     <<"b", "o", "r", "n">>, <<"d", "a", "t", "e">>, <<"d", "o", "b">>,
     <<"a", "g", "e">>, <<"y", "e", "a", "r">>, <<"o", "l", "d">>}

looks_like_dob(txt) ==
    /\ txt # <<>>
    /\ \/ \E i \in 1..Len(txt) : txt[i] \in Digits
       \/ \E w \in months \cup date_words : HasWord(Lower(txt), w)

\* generic_words of _contains_problematic_patterns
generic_words ==
    {<<"u", "n", "k", "n", "o", "w", "n">>, <<"n", "o", "n", "e">>,
     <<"n", "u", "l", "l">>, <<"n", "/", "a">>, <<"n", "a">>,
     <<"t", "e", "s", "t">>, <<"e", "x", "a", "m", "p", "l", "e">>,
     <<"s", "a", "m", "p", "l", "e">>, <<"t", "e", "m", "p">>,
     <<"d", "u", "m", "m", "y">>, <<"d", "e", "f", "a", "u", "l", "t">>,
     <<"u", "s", "e", "r">>, <<"a", "d", "m", "i", "n">>,
     <<"n", "a", "m", "e">>, <<"i", "d", "e", "n", "t", "i", "t", "y">>,
     <<"p", "e", "r", "s", "o", "n">>,
     <<"i", "n", "d", "i", "v", "i", "d", "u", "a", "l">>,
     <<"s", "u", "b", "j", "e", "c", "t">>}

\* (backslash and backtick are written as the tokens BACKSLASH, BACKTICK)
problematic_chars ==
    {"_", "#", "@", "$", "%", "^", "&", "*", "(", ")", "[", "]", "{", "}", "|",
     "BACKSLASH", "/", "<", ">", "?", "!", "~", "BACKTICK", "+", "="}

\* a cased character: str.lower() or str.upper() changes it
IsCased(c) == LowerChar(c) # UpperChar(c)

\* str.isupper() / str.islower(): at least one cased character, all of that case
AllUpper(txt) ==
    /\ \E i \in 1..Len(txt) : IsCased(txt[i])
    /\ \A i \in 1..Len(txt) : IsCased(txt[i]) => txt[i] = UpperChar(txt[i])
AllLower(txt) ==
    /\ \E i \in 1..Len(txt) : IsCased(txt[i])
    /\ \A i \in 1..Len(txt) : IsCased(txt[i]) => txt[i] = LowerChar(txt[i])

contains_problematic_patterns(txt) ==
    /\ txt # <<>>
    /\ \/ Lower(txt) \in generic_words
       \/ Contains(txt, <<" ", " ">>)
       \/ txt[1] = " " \/ txt[Len(txt)] = " "
       \/ {txt[1], txt[Len(txt)]} \cap {"'", "-", "."} # {}
       \/ (Len(txt) > 2 /\ (AllUpper(txt) \/ AllLower(txt)))
       \/ \E i \in 1..Len(txt) : txt[i] \in problematic_chars

\* _validate_variation_quality(variation, original_name)
validate_variation_quality(variation, original) ==
    /\ variation # <<>>
    /\ \E i \in 1..Len(variation) : variation[i] # " "
    /\ Lower(variation) # Lower(original)
    /\ Len(variation) - Len(original) <= 3
    /\ Len(original) - Len(variation) <= 3
    /\ ~looks_like_address(variation)
    /\ ~looks_like_dob(variation)
    /\ ~contains_problematic_patterns(variation)
    /\ Len(Split(variation)) - Len(Split(original)) <= 1
    /\ Len(Split(original)) - Len(Split(variation)) <= 1

\* ------------------------------------------------------ candidate generators
\* generate_phonetic_variations: the rules are tried once, in order
nrb_phonetic_step(s, count, list, k) ==
    LET old == legacy_phonetic_rules[k][1]
        var == Replace(s, old, legacy_phonetic_rules[k][2])
    IN IF Contains(Lower(s), old)
          /\ Lower(var) \notin (LowerSet(list) \cup {Lower(s)})
          /\ validate_variation_quality(var, s)
       THEN Append(list, var) ELSE list

RECURSIVE nrb_phonetic_loop(_, _, _, _)
nrb_phonetic_loop(s, count, list, k) ==
    IF k > Len(legacy_phonetic_rules) \/ Len(list) >= count THEN list
    ELSE nrb_phonetic_loop(s, count, nrb_phonetic_step(s, count, list, k), k + 1)

nrb_generate_phonetic_variations(s, count) ==
    Take(nrb_phonetic_loop(s, count, <<>>, 1), Max(count, 0))

\* similar_chars of generate_orthographic_variations
nrb_similar_chars(c) ==
    CASE c = "a" -> {"@", "GR_alpha", "LA_a_grave", "LA_a_acute", "LA_a_circ",
                     "LA_a_tilde"}
      [] c = "e" -> {"3", "GR_epsilon", "LA_e_grave", "LA_e_acute", "LA_e_circ",
                     "LA_e_uml"}
      [] c = "i" -> {"1", "l", "LA_i_grave", "LA_i_acute", "LA_i_circ", "LA_i_uml"}
      [] c = "o" -> {"0", "GR_omicron", "LA_o_grave", "LA_o_acute", "LA_o_circ",
                     "LA_o_tilde"}
      [] c = "s" -> {"$", "5", "LA_s_cedilla", "LA_s_caron"}
      [] c = "t" -> {"+", "7", "LA_t_cedilla", "LA_t_caron"}
      [] c = "l" -> {"1", "I", "LA_l_stroke"}
      [] c = "g" -> {"9", "q", "LA_g_breve"}
      [] c = "n" -> {"LA_n_tilde", "LA_n_caron"}
      [] c = "c" -> {"LA_c_cedilla", "LA_c_caron"}
      [] c = "u" -> {"LA_u_grave", "LA_u_acute", "LA_u_circ", "LA_u_uml"}
      [] c = "z" -> {"LA_z_caron", "LA_z_acute", "LA_z_dot"}
      [] OTHER -> {}

\* list with var appended when it is new (case-insensitively, also against
\* the name) and differs from the name
OrthoAdd2(list, s, var) ==
    IF Lower(var) \notin (LowerSet(list) \cup {Lower(s)}) /\ var # s
    THEN Append(list, var) ELSE list

\* the lists one iteration of the loop of generate_orthographic_variations can
\* leave, for every draw of its four steps
nrb_ortho_attempt(s, count, list) ==
    LET sim(idx) == nrb_similar_chars(LowerChar(s[idx + 1]))
        sub1 == IF Len(s) > 1
                THEN UNION {IF sim(idx) = {} THEN {list}
                            ELSE {OrthoAdd2(list, s, Take(s, idx) \o <<r>> \o
                                                     Drop(s, idx + 1)) :
                                    r \in sim(idx)} :
                              idx \in 0..(Len(s) - 1)}
                ELSE {list}
        ins(l) == IF Len(l) < count /\ Len(s) > 1
                  THEN {OrthoAdd2(l, s, InsertAt(s, idx, <<c>>)) :
                          idx \in 0..Len(s),
                          c \in {"a", "e", "i", "o", "u", "h", "r", "n"}}
                  ELSE {l}
        del(l) == IF Len(l) < count /\ Len(s) > 2
                  THEN {IF DeleteAt(s, idx) # <<>>
                        THEN OrthoAdd2(l, s, DeleteAt(s, idx)) ELSE l :
                          idx \in 0..(Len(s) - 1)}
                  ELSE {l}
        swp(l) == IF Len(l) < count /\ Len(s) >= 2
                  THEN {OrthoAdd2(l, s, SwapAt(s, idx)) : idx \in 0..(Len(s) - 2)}
                  ELSE {l}
    IN UNION {UNION {UNION {swp(l3) : l3 \in del(l2)} : l2 \in ins(l1)} :
                l1 \in sub1}

\* list with var appended when its lower-cased text is not in list nor the name
ScriptAdd(list, s, var) ==
    IF Lower(var) \notin (LowerSet(list) \cup {Lower(s)}) THEN Append(list, var)
    ELSE list

RECURSIVE ConnectorLoop(_, _, _, _, _)
\* for connector in ['-', '_', '.']: append the joined parts when new, and
\* break when an append reaches count
ConnectorLoop(list, s, parts, count, cs) ==
    IF cs = <<>> THEN list
    ELSE LET nl == ScriptAdd(list, s, Join(parts, <<cs[1]>>))
         IN IF nl # list /\ Len(nl) >= count THEN nl
            ELSE ConnectorLoop(nl, s, parts, count, Tail(cs))

\* the arabic / cyrillic branch of generate_script_specific_variations
script_parts_branch(s, count) ==
    LET parts == Split(s)
        n == Len(parts)
        l1 == ScriptAdd(<<>>, s, Join(<<parts[n]>> \o SubSeq(parts, 2, n - 1) \o
                                       <<parts[1]>>, <<" ">>))
        l2 == ScriptAdd(l1, s, Join(parts, <<>>))
        l3 == ScriptAdd(l2, s, Join(Reverse(parts), <<" ">>))
    IN IF n >= 2 THEN ConnectorLoop(l3, s, parts, count, <<"-", "_", ".">>)
       ELSE <<>>

\* the permutations of the characters of s
Shuffles(s) ==
    {[i \in 1..Len(s) |-> s[p[i]]] :
       p \in {q \in [1..Len(s) -> 1..Len(s)] :
                \A i, j \in 1..Len(s) : q[i] = q[j] => i = j}}

RECURSIVE CjkDeletions(_, _, _)
\* the lists left by k iterations of the removal loop of the cjk branch
CjkDeletions(s, lists, k) ==
    IF k <= 0 THEN lists
    ELSE CjkDeletions(s,
           IF Len(s) > 2
           THEN UNION {{IF DeleteAt(s, idx) # <<>>
                        THEN ScriptAdd(l, s, DeleteAt(s, idx)) ELSE l :
                          idx \in 0..(Len(s) - 1)} : l \in lists}
           ELSE lists,
           k - 1)

RECURSIVE CjkShuffles(_, _, _)
\* the <<chars, list>> pairs left by k iterations of the shuffle loop: chars is
\* shuffled in place, so each shuffle starts from the previous order
CjkShuffles(s, pairs, k) ==
    IF k <= 0 THEN pairs
    ELSE CjkShuffles(s,
           UNION {{<<c, IF c # s THEN ScriptAdd(p[2], s, c) ELSE p[2]>> :
                     c \in Shuffles(p[1])} : p \in pairs},
           k - 1)

\* the cjk branch: the lists it can leave
script_cjk_branch(s, count) ==
    LET dels == IF Len(s) > 1 THEN CjkDeletions(s, {<<>>}, Min(3, count))
                ELSE {<<>>}
    IN IF Len(s) >= 2
       THEN UNION {{p[2] : p \in CjkShuffles(s, {<<s, l>>}, Min(2, count - Len(l)))} :
                     l \in dels}
       ELSE dels

\* one iteration of the fill loop of generate_script_specific_variations
script_fill_iteration(s, count, list) ==
    LET dels == IF Len(s) > 2
                THEN {IF DeleteAt(s, idx) # <<>>
                      THEN ScriptAdd(list, s, DeleteAt(s, idx)) ELSE list :
                        idx \in 0..(Len(s) - 1)}
                ELSE {list}
        dup(l) == IF Len(l) >= count THEN {l}
                  ELSE IF Len(s) > 1
                  THEN {ScriptAdd(l, s, InsertAt(s, idx, <<s[idx + 1]>>)) :
                          idx \in 0..(Len(s) - 1)}
                  ELSE {l}
    IN UNION {dup(l) : l \in dels}

\* -------------------------------------------------- candidate-generator calls
CandSeeds ==
    {<<"K", "i">>, <<"P", "h", "i">>, <<"o", "LA_e_acute">>, <<"CY_DE", " ", "CY_A">>,
     <<"CY_YA">>, <<"CJ_LI", "CJ_LI", "CJ_WANG">>, <<"L", "l">>}

CandGenerators ==
    {"phonetic", "orthographic", "script_specific", "transliteration",
     "name_phonetic", "name_orthographic"}

CandInputs ==
    /\ cgen \in CandGenerators
    /\ cname \in CandSeeds
    /\ ccount \in 0..MaxHint
    /\ cuni \in IF cgen = "transliteration" THEN BOOLEAN ELSE {TRUE}
    /\ cpc = "call"
    /\ oname = <<>> /\ ocnt = 0 /\ cvars = <<>> /\ cattempts = 0 /\ cpre = <<>>
    /\ cresult = <<>>

CandInit ==
    GenIdle /\ CalcIdle /\ ParseIdle /\ RuleIdle /\ CandInputs /\ ExtIdle

\* generate_phonetic_variations(name, count)
CallPhonetic ==
    /\ cpc = "call" /\ cgen = "phonetic"
    /\ cresult' = nrb_generate_phonetic_variations(cname, ccount)
    /\ cpc' = "returned"
    /\ UNCHANGED <<cgen, cname, ccount, cuni, oname, ocnt, cvars, cattempts, cpre,
                   outsideCand>>

\* _generate_phonetic_variations(name, count) of name.py
CallNamePhonetic ==
    /\ cpc = "call" /\ cgen = "name_phonetic"
    /\ cvars' = <<>> /\ cattempts' = 0
    /\ cpc' = "phon"
    /\ UNCHANGED <<cgen, cname, ccount, cuni, oname, ocnt, cpre, cresult,
                   outsideCand>>

\* NamePhoneticAttempt that forgets "attempts += 1"
NamePhoneticAttempt_Uncounted ==
    /\ cpc = "phon"
    /\ Len(cvars) < ccount /\ cattempts < ccount * 3
    /\ cvars' = phonetic_attempt(cname, ccount, cvars)
    /\ UNCHANGED <<cgen, cname, ccount, cuni, cpc, oname, ocnt, cattempts, cpre,
                   cresult, outsideCand>>

\* one iteration of "while len(variations) < count and attempts < count * 3"
NamePhoneticAttempt ==
    /\ cpc = "phon"
    /\ Len(cvars) < ccount /\ cattempts < ccount * 3
    /\ cattempts' = cattempts + 1
    /\ cvars' = phonetic_attempt(cname, ccount, cvars)
    /\ UNCHANGED <<cgen, cname, ccount, cuni, cpc, oname, ocnt, cpre, cresult,
                   outsideCand>>

\* the loop ends: return variations[:count]
NamePhoneticReturn ==
    /\ cpc = "phon"
    /\ ~(Len(cvars) < ccount /\ cattempts < ccount * 3)
    /\ cresult' = Take(cvars, Max(ccount, 0))
    /\ cpc' = "returned"
    /\ UNCHANGED <<cgen, cname, ccount, cuni, oname, ocnt, cvars, cattempts, cpre,
                   outsideCand>>

\* _generate_orthographic_variations(name, count) of name.py up to its loop,
\* which OrthoSub, OrthoIns, OrthoDel and OrthoExit run
CallNameOrthographic ==
    /\ cpc = "call" /\ cgen = "name_orthographic"
    /\ lname' = cname /\ lcount' = ccount /\ ocount' = ccount
    /\ ovars' = <<>> /\ attempts' = 0
    /\ pc' = "ortho_sub"
    /\ cpc' = "name_ortho"
    /\ UNCHANGED <<cgen, cname, ccount, cuni, oname, ocnt, cvars, cattempts, cpre,
                   cresult, name, vc, pct, rules, unidecodeOk, variations, origin,
                   lvars, lorig, ri, rvars, scount, svars, trace, rng, twRun,
                   twSeed, twFirst, calcVars, parseVars, ruleVars, extVars>>

\* return variations[:count] of _generate_orthographic_variations
NameOrthographicReturn ==
    /\ cpc = "name_ortho" /\ pc = "latin_ret"
    /\ cresult' = Take(ovars, ocount)
    /\ cpc' = "returned"
    /\ pc' = "idle"
    /\ UNCHANGED <<cgen, cname, ccount, cuni, oname, ocnt, cvars, cattempts, cpre,
                   name, vc, pct, rules, unidecodeOk, variations, origin, lname,
                   lcount, lvars, lorig, ri, rvars, ocount, ovars, attempts, scount,
                   svars, trace, rng, twRun, twSeed, twFirst, calcVars, parseVars,
                   ruleVars, extVars>>

\* generate_orthographic_variations(name, count) up to its loop
CallOrthographic ==
    /\ cpc = "call" /\ cgen = "orthographic"
    /\ oname' = cname /\ ocnt' = ccount /\ cvars' = <<>> /\ cattempts' = 0
    /\ cpre' = <<>>
    /\ cpc' = "ortho"
    /\ UNCHANGED <<cgen, cname, ccount, cuni, cresult, outsideCand>>

\* one iteration of "while len(variations) < count and attempts < max_attempts"
OrthoAttempt ==
    /\ cpc = "ortho"
    /\ Len(cvars) < ocnt /\ cattempts < ocnt * 5
    /\ cattempts' = cattempts + 1
    /\ cvars' \in nrb_ortho_attempt(oname, ocnt, cvars)
    /\ UNCHANGED <<cgen, cname, ccount, cuni, cpc, oname, ocnt, cpre, cresult,
                   outsideCand>>

\* the loop ends: return variations[:count]; in the transliteration generator
\* the list is appended to the transliteration and the phonetic variations and
\* the whole cut to count
OrthoReturn ==
    /\ cpc = "ortho"
    /\ ~(Len(cvars) < ocnt /\ cattempts < ocnt * 5)
    /\ cresult' = Take(cpre \o Take(cvars, ocnt), ccount)
    /\ cpc' = "returned"
    /\ UNCHANGED <<cgen, cname, ccount, cuni, oname, ocnt, cvars, cattempts, cpre,
                   outsideCand>>

\* generate_script_specific_variations(name, script_type, count) up to its
\* fill loop
CallScriptSpecific ==
    /\ cpc = "call" /\ cgen = "script_specific"
    /\ cvars' \in (CASE detect_script_type(cname) \in {"arabic", "cyrillic"} ->
                          {script_parts_branch(cname, ccount)}
                     [] detect_script_type(cname) = "cjk" ->
                          script_cjk_branch(cname, ccount)
                     [] OTHER -> {<<>>})
    /\ cpc' = "fill"
    /\ UNCHANGED <<cgen, cname, ccount, cuni, oname, ocnt, cattempts, cpre, cresult,
                   outsideCand>>

\* one iteration of "while len(variations) < count"
ScriptFillIteration ==
    /\ cpc = "fill"
    /\ Len(cvars) < ccount
    /\ cvars' \in script_fill_iteration(cname, ccount, cvars)
    /\ UNCHANGED <<cgen, cname, ccount, cuni, cpc, oname, ocnt, cattempts, cpre,
                   cresult, outsideCand>>

\* return variations[:count]
ScriptSpecificReturn ==
    /\ cpc = "fill"
    /\ Len(cvars) >= ccount
    /\ cresult' = Take(cvars, ccount)
    /\ cpc' = "returned"
    /\ UNCHANGED <<cgen, cname, ccount, cuni, oname, ocnt, cvars, cattempts, cpre,
                   outsideCand>>

\* generate_transliteration_variations(name, count) up to the loop of the
\* orthographic generator it calls
CallTransliteration ==
    /\ cpc = "call" /\ cgen = "transliteration"
    /\ LET t == unidecode(cname)
           remaining == ccount - 1
       IN IF cuni /\ t # <<>> /\ t # cname /\ 1 < ccount
          THEN /\ oname' = t
               /\ ocnt' = remaining - remaining \div 2
               /\ cpre' = <<t>> \o nrb_generate_phonetic_variations(t, remaining \div 2)
               /\ cpc' = "ortho"
               /\ UNCHANGED cresult
          ELSE /\ cresult' = IF cuni /\ t # <<>> /\ t # cname THEN Take(<<t>>, ccount)
                             ELSE <<>>
               /\ cpc' = "returned"
               /\ UNCHANGED <<oname, ocnt, cpre>>
    /\ UNCHANGED <<cgen, cname, ccount, cuni, cvars, cattempts, outsideCand>>

CandNext ==
    \/ CallPhonetic
    \/ CallNamePhonetic \/ NamePhoneticAttempt \/ NamePhoneticReturn
    \/ CallNameOrthographic \/ OrthoSub \/ OrthoIns \/ OrthoDel \/ OrthoExit
    \/ NameOrthographicReturn
    \/ CallOrthographic
    \/ OrthoAttempt
    \/ OrthoReturn
    \/ CallScriptSpecific
    \/ ScriptFillIteration
    \/ ScriptSpecificReturn
    \/ CallTransliteration

CandSpec == CandInit /\ [][CandNext]_vars

\* ------------------------------------------- cleaning of the service output
Whitespace == {" ", "\n"}

RECURSIVE LStrip(_)
LStrip(s) == IF s # <<>> /\ s[1] \in Whitespace THEN LStrip(Tail(s)) ELSE s

RECURSIVE RStrip(_)
RStrip(s) ==
    IF s # <<>> /\ s[Len(s)] \in Whitespace THEN RStrip(Take(s, Len(s) - 1))
    ELSE s

\* s.strip()
Strip(s) == RStrip(LStrip(s))

\* s.startswith(p), s.endswith(p)
StartsWith(s, p) == Len(s) >= Len(p) /\ SubSeq(s, 1, Len(p)) = p
EndsWith(s, p) == Len(s) >= Len(p) /\ SubSeq(s, Len(s) - Len(p) + 1, Len(s)) = p

RECURSIVE SplitOn(_, _)
\* s.split(c) for a one-character separator c
SplitOn(s, c) ==
    IF \E i \in 1..Len(s) : s[i] = c
    THEN LET i == MinOf({j \in 1..Len(s) : s[j] = c})
         IN <<Take(s, i - 1)>> \o SplitOn(Drop(s, i), c)
    ELSE <<s>>

\* prefixes of _clean_single_variation (the bullet is the token BULLET)
prefixes ==
    << <<"V", "a", "r", "i", "a", "t", "i", "o", "n", ":">>,
       <<"A", "l", "t", ":">>,
       <<"A", "l", "t", "e", "r", "n", "a", "t", "i", "v", "e", ":">>,
       <<"-">>, <<"*">>, <<"BULLET">>,
       <<"1", ".">>, <<"2", ".">>, <<"3", ".">>, <<"4", ".">>, <<"5", ".">>,
       <<"6", ".">>, <<"7", ".">>, <<"8", ".">>, <<"9", ".">>,
       <<"1", "0", ".">>, <<"1", "1", ".">>, <<"1", "2", ".">>,
       <<"1", "3", ".">>, <<"1", "4", ".">>, <<"1", "5", ".">> >>

RECURSIVE StripPrefixes(_, _)
\* the loop over prefixes, from the k-th prefix on
StripPrefixes(s, k) ==
    IF k > Len(prefixes) THEN s
    ELSE StripPrefixes(IF StartsWith(s, prefixes[k])
                       THEN Strip(Drop(s, Len(prefixes[k]))) ELSE s, k + 1)

\* re.sub(r'^\d+[\.\)]\s*', '', s)
StripNumbering(s) ==
    LET n == IF \E i \in 1..Len(s) : s[i] \notin Digits
             THEN MinOf({i \in 1..Len(s) : s[i] \notin Digits}) - 1
             ELSE Len(s)
    IN IF n >= 1 /\ Len(s) > n /\ s[n + 1] \in {".", ")"}
       THEN LStrip(Drop(s, n + 1)) ELSE s

RECURSIVE CollapseSpaces(_)
\* while "  " in s: s = s.replace("  ", " ")
CollapseSpaces(s) ==
    IF Contains(s, <<" ", " ">>)
    THEN CollapseSpaces(Replace(s, <<" ", " ">>, <<" ">>)) ELSE s

\* the characters of the class [A-Za-z\u00C0-\u00FF] the model's texts can hold
NameLetters ==
    AsciiLower \cup {UpperChar(c) : c \in AsciiLower} \cup
    {"LA_A_grave", "LA_a_grave", "LA_A_acute", "LA_a_acute", "LA_A_circ",
     "LA_a_circ", "LA_A_tilde", "LA_a_tilde", "LA_E_grave", "LA_e_grave",
     "LA_E_acute", "LA_e_acute", "LA_E_circ", "LA_e_circ", "LA_E_uml",
     "LA_e_uml", "LA_I_grave", "LA_i_grave", "LA_I_acute", "LA_i_acute",
     "LA_I_circ", "LA_i_circ", "LA_I_uml", "LA_i_uml", "LA_O_grave",
     "LA_o_grave", "LA_O_acute", "LA_o_acute", "LA_O_circ", "LA_o_circ",
     "LA_O_tilde", "LA_o_tilde", "LA_U_grave", "LA_u_grave", "LA_U_acute",
     "LA_u_acute", "LA_U_circ", "LA_u_circ", "LA_U_uml", "LA_u_uml",
     "LA_N_tilde", "LA_n_tilde", "LA_C_cedilla", "LA_c_cedilla"}

\* re.match(r"^[A-Za-z\u00C0-\u00FF]+([ '\-][A-Za-z\u00C0-\u00FF]+)*$", s)
MatchesNamePattern(s) ==
    /\ s # <<>>
    /\ s[1] \in NameLetters /\ s[Len(s)] \in NameLetters
    /\ \A i \in 1..Len(s) : s[i] \in NameLetters \cup {" ", "'", "-"}
    /\ \A i \in 1..(Len(s) - 1) : s[i] \in NameLetters \/ s[i + 1] \in NameLetters

\* _clean_single_variation(raw_variation, original_name)
clean_single_variation(raw) ==
    IF raw = <<>> THEN <<>>
    ELSE LET c1 == StripNumbering(StripPrefixes(Strip(raw), 1))
             c2 == IF \E i \in 1..Len(c1) : c1[i] = ":"
                   THEN LET ps == SplitOn(c1, ":") IN Strip(ps[Len(ps)])
                   ELSE c1
             c3 == Replace(Replace(Replace(c2, <<"\"">>, <<>>), <<".">>, <<>>),
                           <<"a", "n", "d", " ">>, <<>>)
             c4 == Strip(CollapseSpaces(c3))
         IN IF MatchesNamePattern(c4) THEN c4 ELSE <<>>

\* ------------------------------------------------------- similarity measures
\* set(s.lower())
CharSet(s) == {LowerChar(s[i]) : i \in 1..Len(s)}

\* _calculate_character_similarity(var1, var2) as the fraction <<num, den>>
calculate_character_similarity(var1, var2) ==
    IF var1 = <<>> \/ var2 = <<>> THEN <<0, 1>>
    ELSE <<Cardinality(CharSet(var1) \cap CharSet(var2)),
           Cardinality(CharSet(var1) \cup CharSet(var2))>>

\* substitutions of _are_near_duplicates
substitutions ==
    {<< <<"j", "o", "h", "n">>, <<"j", "o", "n">> >>,
     << <<"m", "i", "c", "h", "a", "e", "l">>, <<"m", "i", "k", "e">> >>,
     << <<"w", "i", "l", "l", "i", "a", "m">>, <<"w", "i", "l", "l">> >>,
     << <<"r", "o", "b", "e", "r", "t">>, <<"r", "o", "b">> >>,
     << <<"j", "a", "m", "e", "s">>, <<"j", "i", "m">> >>,
     << <<"r", "i", "c", "h", "a", "r", "d">>, <<"r", "i", "c", "k">> >>,
     << <<"s", "m", "i", "t", "h">>, <<"s", "m", "y", "t", "h">> >>,
     << <<"j", "o", "h", "n", "s", "o", "n">>, <<"j", "o", "n", "s", "o", "n">> >>,
     << <<"b", "r", "o", "w", "n">>, <<"b", "r", "o", "w", "n", "e">> >>}

\* _are_near_duplicates(name1, name2)
are_near_duplicates(name1, name2) ==
    \/ /\ Len(name1) - Len(name2) \in {1, 0 - 1}
       /\ LET longer == IF Len(name1) > Len(name2) THEN name1 ELSE name2
              shorter == IF Len(name1) > Len(name2) THEN name2 ELSE name1
          IN Contains(longer, shorter)
    \/ \E p \in substitutions :
          \/ Contains(name1, p[1]) /\ Contains(name2, p[2])
          \/ Contains(name1, p[2]) /\ Contains(name2, p[1])

\* _is_too_similar_to_existing without the near-duplicate patterns
is_too_similar_to_existing_JaccardOnly(candidate, existing) ==
    \E e \in existing :
       /\ Lower(candidate) # Lower(e)
       /\ LET sim == calculate_character_similarity(Lower(candidate), Lower(e))
          IN 10 * sim[1] > 9 * sim[2]

\* _is_too_similar_to_existing(candidate, existing_variations)
is_too_similar_to_existing(candidate, existing) ==
    \E e \in existing :
       /\ Lower(candidate) # Lower(e)
       /\ LET sim == calculate_character_similarity(Lower(candidate), Lower(e))
          IN \/ 10 * sim[1] > 9 * sim[2]
             \/ are_near_duplicates(Lower(candidate), Lower(e))

\* phonetic_pairs and vowel_subs of _calculate_phonetic_similarity
phonetic_pairs ==
    {<< <<"p", "h">>, <<"f">> >>, << <<"c">>, <<"k">> >>,
     << <<"s">>, <<"z">> >>, << <<"i">>, <<"y">> >>,
     << <<"c", "k">>, <<"k">> >>, << <<"t", "h">>, <<"t">> >>,
     << <<"w">>, <<"v">> >>, << <<"j">>, <<"g">> >>}
vowel_subs ==
    {<< <<"a">>, <<"e">> >>, << <<"i">>, <<"y">> >>, << <<"o">>, <<"u">> >>}

\* some pair of the table has one side in a and the other side in b
PairAcross(pairs, a, b) ==
    \E p \in pairs :
       \/ Contains(a, p[1]) /\ Contains(b, p[2])
       \/ Contains(a, p[2]) /\ Contains(b, p[1])

\* _calculate_phonetic_similarity(var1, var2) as the fraction <<num, den>>
calculate_phonetic_similarity(var1, var2) ==
    IF var1 = <<>> \/ var2 = <<>> THEN <<0, 1>>
    ELSE IF PairAcross(phonetic_pairs, Lower(var1), Lower(var2)) THEN <<9, 10>>
    ELSE IF PairAcross(vowel_subs, Lower(var1), Lower(var2)) THEN <<8, 10>>
    ELSE calculate_character_similarity(var1, var2)

\* str.istitle(): an upper-case character only after an uncased one, a
\* lower-case character only after a cased one, at least one cased character
istitle(s) ==
    /\ \E i \in 1..Len(s) : IsCased(s[i])
    /\ \A i \in 1..Len(s) :
          IsCased(s[i]) =>
             IF i > 1 /\ IsCased(s[i - 1]) THEN s[i] = LowerChar(s[i])
             ELSE s[i] = UpperChar(s[i])

common_endings ==
    {<<"s", "o", "n">>, <<"s", "e", "n">>, <<"t", "o", "n">>, <<"m", "a", "n">>,
     <<"e", "r">>, <<"l", "y">>, <<"t", "h">>, <<"t", "e">>, <<"n", "e">>}
unusual_patterns ==
    {<<"q", "q">>, <<"x", "x">>, <<"z", "z">>, <<"j", "j">>, <<"k", "k">>}

\* _calculate_naturalness_score(variation, original), in tenths
calculate_naturalness_score(variation, original) ==
    LET raw == 5
               + (IF istitle(variation) THEN 2 ELSE 0)
               + (IF Len(variation) >= 2 /\ Len(variation) <= 20 THEN 1 ELSE 0)
               + (IF \E e \in common_endings : EndsWith(Lower(variation), e)
                  THEN 1 ELSE 0)
               - (IF \E u \in unusual_patterns : Contains(Lower(variation), u)
                  THEN 2 ELSE 0)
               + (IF Len(Split(original)) = Len(Split(variation)) THEN 1 ELSE 0)
    IN Max(0, Min(10, raw))

\* length_score of _calculate_variation_score, in tenths
length_score(variation, original) ==
    LET d == IF Len(variation) >= Len(original)
             THEN Len(variation) - Len(original)
             ELSE Len(original) - Len(variation)
    IN IF d = 0 THEN 10 ELSE IF d = 1 THEN 8 ELSE IF d = 2 THEN 6
       ELSE IF d = 3 THEN 4 ELSE 0

\* the weighted sum of _calculate_variation_score as the fraction <<num, den>>
\* of four times the score (each term has weight 0.25)
WeightedSum(tenths, cs, ps) ==
    <<tenths * cs[2] * ps[2] + 10 * cs[1] * ps[2] + 10 * ps[1] * cs[2],
      10 * cs[2] * ps[2]>>

\* _calculate_variation_score(variation, original)
calculate_variation_score(variation, original) ==
    WeightedSum(length_score(variation, original)
                + calculate_naturalness_score(variation, original),
                calculate_character_similarity(variation, original),
                calculate_phonetic_similarity(variation, original))

\* score a > score b
Higher(a, b) == a[1] * b[2] > b[1] * a[2]

\* list.sort(key=score, reverse=True): the position each index moves to; the
\* sort is stable, so equal scores keep their order
SortedPosition(score) ==
    [i \in DOMAIN score |->
       1 + Cardinality({j \in DOMAIN score :
                          \/ Higher(score[j], score[i])
                          \/ j < i /\ ~Higher(score[i], score[j])})]

\* the first target elements of the sorted list
TopOfSorted(candidates, pos, target) ==
    [k \in 1..target |-> candidates[CHOOSE i \in DOMAIN pos : pos[i] = k]]

\* _select_best_variations(candidates, original_name, target_count)
select_best_variations(candidates, original, target) ==
    IF Len(candidates) <= target THEN candidates
    ELSE TopOfSorted(candidates,
                     SortedPosition([i \in 1..Len(candidates) |->
                                       calculate_variation_score(candidates[i],
                                                                 original)]),
                     target)

\* ------------------------------------ _clean_ollama_variations_with_dedup
\* one iteration of either loop: the candidate is cleaned, checked and, when
\* it passes, appended to all_candidates and added to used
Accepts(raw, original, used) ==
    LET cleaned == clean_single_variation(raw)
    IN /\ cleaned # <<>>
       /\ Lower(cleaned) \notin used
       /\ validate_variation_quality(cleaned, original)
       /\ ~is_too_similar_to_existing(cleaned, used)

FilterSeeds == {<<"J", "o", "h", "n">>, <<"A", "n", "n", " ", "L", "e", "e">>}

\* existing_variations: lower-case texts, as the function's contract states
FilterExisting(seed) ==
    IF seed = <<"J", "o", "h", "n">>
    THEN {{}, {<<"j", "o", "n">>}, {<<"j", "o", "n", "a", "s">>}}
    ELSE {{}, {<<"a", "n", " ", "l", "i">>}}

\* lines the service can answer with
ServiceLines(seed) ==
    IF seed = <<"J", "o", "h", "n">>
    THEN {<<"1", ".", " ", "J", "o", "n">>,
          <<"-", " ", "J", "h", "o", "n">>,
          <<"J", "o", "n", "h", ",", " ", "J", "o", "h", "a", "n">>,
          <<"J", "O", "H", "N">>,
          <<"J", "o", "h", "n", "s">>,
          <<"J", "o", "3", "n">>,
          <<"J", "o", "n", " ", "M", "a", "y">>}
    ELSE {<<"A", "l", "t", ":", " ", "A", "n", " ", "L", "e", "e">>,
          <<"A", "n", "n", "e", " ", "L", "e", "e", " ", "S", "t">>,
          <<"A", "n", "a", " ", "L", "i", ",", "A", "n", "n", " ", "L", "i">>}

RECURSIVE RawOutputs(_, _)
\* the answers of at most n lines
RawOutputs(seed, n) ==
    IF n = 0 THEN {<<>>}
    ELSE RawOutputs(seed, n - 1) \cup ServiceLines(seed) \cup
         {l \o <<"\n">> \o r : l \in ServiceLines(seed),
                                r \in RawOutputs(seed, n - 1) \ {<<>>}}

FilterInputs ==
    /\ fname \in FilterSeeds
    /\ fexisting \in FilterExisting(fname)
    /\ fraw \in RawOutputs(fname, MaxLines)
    /\ ftarget \in 0..MaxTarget
    /\ fpc = "lines"
    /\ fqueue = SplitOn(Strip(fraw), "\n")
    /\ fused = fexisting
    /\ fcands = <<>>
    /\ fresult = <<>>

FilterInit ==
    /\ GenIdle /\ CalcIdle /\ ParseIdle /\ RuleIdle /\ CandIdle /\ FilterInputs
    /\ SelectIdle /\ ServiceIdle /\ ForwardIdle /\ LookupIdle /\ MoreIdle

\* one iteration of a loop over fqueue
FilterOffer ==
    /\ fqueue' = Tail(fqueue)
    /\ IF Accepts(Head(fqueue), fname, fused)
       THEN /\ fcands' = Append(fcands, clean_single_variation(Head(fqueue)))
            /\ fused' = fused \cup {Lower(clean_single_variation(Head(fqueue)))}
       ELSE UNCHANGED <<fcands, fused>>

\* first pass: one line
FilterLine ==
    /\ fpc = "lines" /\ fqueue # <<>>
    /\ FilterOffer
    /\ UNCHANGED <<fname, fexisting, fraw, ftarget, fpc, fresult, outsideFilter>>

\* the lines are exhausted: the comma-separated pass runs when too few passed
FilterLinesDone ==
    /\ fpc = "lines" /\ fqueue = <<>>
    /\ IF Len(fcands) < ftarget
       THEN /\ fpc' = "commas"
            /\ fqueue' = SplitOn(Replace(fraw, <<"\n">>, <<",">>), ",")
       ELSE /\ fpc' = "select"
            /\ UNCHANGED fqueue
    /\ UNCHANGED <<fname, fexisting, fraw, ftarget, fused, fcands, fresult,
                   outsideFilter>>

\* second pass: one comma-separated part
FilterPart ==
    /\ fpc = "commas" /\ fqueue # <<>> /\ Len(fcands) < ftarget * 2
    /\ FilterOffer
    /\ UNCHANGED <<fname, fexisting, fraw, ftarget, fpc, fresult, outsideFilter>>

\* the second pass ends: parts exhausted, or the break
FilterPartsDone ==
    /\ fpc = "commas" /\ (fqueue = <<>> \/ Len(fcands) >= ftarget * 2)
    /\ fpc' = "select"
    /\ UNCHANGED <<fname, fexisting, fraw, ftarget, fqueue, fused, fcands,
                   fresult, outsideFilter>>

\* the selection and the return
FilterReturn ==
    /\ fpc = "select"
    /\ fresult' = select_best_variations(fcands, fname, ftarget)
    /\ fpc' = "returned"
    /\ UNCHANGED <<fname, fexisting, fraw, ftarget, fqueue, fused, fcands,
                   outsideFilter>>

FilterNext ==
    \/ FilterLine
    \/ FilterLinesDone
    \/ FilterPart
    \/ FilterPartsDone
    \/ FilterReturn

FilterSpec == FilterInit /\ [][FilterNext]_vars

\* ------------------------------------------------ _select_best_variations
\* candidate texts of different scores for the seed John, two of them equal
SelectPool ==
    {<<"J", "o", "n">>, <<"J", "h", "o", "n">>, <<"J", "a", "h", "n">>,
     <<"J", "o", "a", "n">>, <<"j", "o", "h", "n", "n">>, <<"J", "x", "x", "n">>}

RECURSIVE ListsUpTo(_, _)
\* the lists of at most n elements of S
ListsUpTo(S, n) ==
    IF n = 0 THEN {<<>>}
    ELSE {<<>>} \cup {<<x>> \o l : x \in S, l \in ListsUpTo(S, n - 1)}

SelectInputs ==
    /\ selCands \in ListsUpTo(SelectPool, MaxCands)
    /\ selOrig = <<"J", "o", "h", "n">>
    /\ selK \in 0..MaxK
    /\ selPc = "call"
    /\ selOut = <<>>

SelectInit ==
    /\ GenIdle /\ CalcIdle /\ ParseIdle /\ RuleIdle /\ CandIdle /\ FilterIdle
    /\ SelectInputs /\ ServiceIdle /\ ForwardIdle /\ LookupIdle /\ MoreIdle

SelectBestVariations ==
    /\ selPc = "call"
    /\ selOut' = select_best_variations(selCands, selOrig, selK)
    /\ selPc' = "returned"
    /\ UNCHANGED <<selCands, selOrig, selK, outsideSelect>>

SelectNext == SelectBestVariations

SelectSpec == SelectInit /\ [][SelectNext]_vars

\* ------------------------------------- callers of the generative service
RECURSIVE CleanPass(_, _, _, _)
\* one loop of _clean_ollama_variations over queue: <<all_candidates, used>>
CleanPass(queue, original, used, cands) ==
    IF queue = <<>> THEN <<cands, used>>
    ELSE IF /\ clean_single_variation(Head(queue)) # <<>>
            /\ Lower(clean_single_variation(Head(queue))) \notin used
            /\ validate_variation_quality(clean_single_variation(Head(queue)),
                                          original)
         THEN CleanPass(Tail(queue), original,
                        used \cup {Lower(clean_single_variation(Head(queue)))},
                        Append(cands, clean_single_variation(Head(queue))))
         ELSE CleanPass(Tail(queue), original, used, cands)

\* the comma-separated pass, taken when the line pass left fewer than target
CommaPass(first, raw, original, target) ==
    IF Len(first[1]) < target
    THEN CleanPass(SplitOn(Replace(raw, <<"\n">>, <<",">>), ","), original,
                   first[2], first[1])
    ELSE first

\* _clean_ollama_variations(raw_output, original_name, target_count)
clean_ollama_variations(raw, original, target) ==
    select_best_variations(
       CommaPass(CleanPass(SplitOn(Strip(raw), "\n"), original,
                           {Lower(original)}, <<>>),
                 raw, original, target)[1],
       original, target)

\* _fallback_variations(name, count)
fallback_variations(s, count) == nrb_generate_phonetic_variations(s, count)

\* ''.join(c for c in s if not c.isdigit())
DropDigits(s) == SelectSeq(s, LAMBDA c : c \notin Digits)

RECURSIVE StripChars(_, _)
\* s.strip(chars)
StripChars(s, chars) ==
    IF s # <<>> /\ s[1] \in chars THEN StripChars(Tail(s), chars)
    ELSE IF s # <<>> /\ s[Len(s)] \in chars
         THEN StripChars(Take(s, Len(s) - 1), chars)
    ELSE s

\* the characters VariationGenerator.generate_name_variations strips
StrippedPunctuation ==
    {".", ",", ";", ":", "!", "?", "(", ")", "[", "]", "{", "}", "\"", "'", "-"}

RECURSIVE NameParts(_)
\* the cleaned parts of the comma-separated parts of one line
NameParts(parts) ==
    IF parts = <<>> THEN <<>>
    ELSE LET cleaned == Strip(StripChars(DropDigits(Strip(Head(parts))),
                                         StrippedPunctuation))
         IN (IF Len(cleaned) > 1 THEN <<cleaned>> ELSE <<>>)
            \o NameParts(Tail(parts))

RECURSIVE NameLines(_)
\* the loop over the lines of the answer: lines without a comma are skipped
NameLines(lines) ==
    IF lines = <<>> THEN <<>>
    ELSE (IF \E i \in 1..Len(Strip(Head(lines))) : Strip(Head(lines))[i] = ","
          THEN NameParts(SplitOn(Strip(Head(lines)), ","))
          ELSE <<>>)
         \o NameLines(Tail(lines))

RECURSIVE UniqueNames(_, _, _)
\* the duplicate removal of VariationGenerator.generate_name_variations
UniqueNames(list, seen, s) ==
    IF list = <<>> THEN <<>>
    ELSE IF Lower(Head(list)) \notin seen /\ Lower(Head(list)) # Lower(s)
         THEN <<Head(list)>>
              \o UniqueNames(Tail(list), seen \cup {Lower(Head(list))}, s)
         ELSE UniqueNames(Tail(list), seen, s)

\* the try block of VariationGenerator.generate_name_variations on the text
\* the service answered with
vg_parse_response(txt, s, count) ==
    Take(UniqueNames(NameLines(SplitOn(txt, "\n")), {}, s), count)

ServiceFunctions ==
    {"generate_ollama_variations", "VariationGenerator.generate_name_variations",
     "generate_variations_with_ollama"}

\* the ways the service can fail; the client library can be absent only for
\* ollama_generator.py, which guards its import
FailureModes(fn) ==
    {"refused", "timeout", "status", "malformed"} \cup
    (IF fn = "generate_variations_with_ollama" THEN {"not_installed"} ELSE {})

\* answers of the service, on top of the line-wise ones
ServiceBodies(seed) ==
    RawOutputs(seed, MaxLines) \cup
    {<<"J", "o", "n", ",", " ", "J", "h", "o", "n", ",", "J", "a", "h", "n">>,
     <<"J", "o", "n", "a", "s", " ", "S", "t", "r", "e", "e", "t", ",", " ",
       "J", "0", "n">>,
     <<"(", "J", "o", "n", ")", ",", "j", "o", "n", ",", "J", "O", "H", "N",
       "\n", "J", "o", "a", "n", ",">>}

ServiceInputs ==
    /\ svcFn \in ServiceFunctions
    /\ svcName \in FilterSeeds
    /\ svcCount \in 0..MaxTarget
    /\ svcMode \in FailureModes(svcFn) \cup {"ok"}
    /\ svcBody \in IF svcMode = "ok" THEN ServiceBodies(svcName) ELSE {<<>>}
    /\ svcPc = "call"
    /\ svcOut = <<>>
    /\ svcRaised = "none"

ServiceInit ==
    /\ GenIdle /\ CalcIdle /\ ParseIdle /\ RuleIdle /\ CandIdle /\ FilterIdle
    /\ SelectIdle /\ ServiceInputs /\ ForwardIdle /\ LookupIdle /\ MoreIdle

\* generate_ollama_variations(name, count, ...): requests.post raises when the
\* connection is refused or times out and response.json() raises on a
\* malformed body; the except branch and a status other than 200 both lead
\* to _fallback_variations
GenerateOllamaVariations ==
    /\ svcPc = "call" /\ svcFn = "generate_ollama_variations"
    /\ svcOut' = IF svcMode = "ok"
                 THEN clean_ollama_variations(svcBody, svcName, svcCount)
                 ELSE fallback_variations(svcName, svcCount)
    /\ svcPc' = "returned"
    /\ UNCHANGED <<svcFn, svcName, svcCount, svcMode, svcBody, svcRaised,
                   outsideService>>

\* VariationGenerator.generate_name_variations(name, count): every exception
\* of the try block (client.chat, response['message']['content']) returns []
VariationGeneratorNames ==
    /\ svcPc = "call" /\ svcFn = "VariationGenerator.generate_name_variations"
    /\ svcOut' = IF svcMode = "ok"
                 THEN vg_parse_response(svcBody, svcName, svcCount)
                 ELSE <<>>
    /\ svcPc' = "returned"
    /\ UNCHANGED <<svcFn, svcName, svcCount, svcMode, svcBody, svcRaised,
                   outsideService>>

\* generate_variations_with_ollama(synapse): RuntimeError when ollama is not
\* installed or client.list() fails; otherwise the call of
\* parse_query_template, a name the module never defines or imports, raises
\* NameError before the first identity is processed
GenerateVariationsWithOllama ==
    /\ svcPc = "call" /\ svcFn = "generate_variations_with_ollama"
    /\ svcRaised' = IF svcMode \in {"not_installed", "refused"}
                    THEN "RuntimeError" ELSE "NameError"
    /\ svcPc' = "raised"
    /\ UNCHANGED <<svcFn, svcName, svcCount, svcMode, svcBody, svcOut,
                   outsideService>>

ServiceNext ==
    \/ GenerateOllamaVariations
    \/ VariationGeneratorNames
    \/ GenerateVariationsWithOllama

ServiceSpec == ServiceInit /\ [][ServiceNext]_vars

\* ------------------------------------------------------------ Miner.forward
RECURSIVE ExtendTo(_, _)
\* while len(l) < target: l.extend(l[:min(len(l), target - len(l))]), for a
\* non-empty l (an empty l never leaves the loop)
ExtendTo(l, target) ==
    IF Len(l) >= target THEN l
    ELSE ExtendTo(l \o Take(l, Min(Len(l), target - Len(l))), target)

RECURSIVE CombineFrom(_, _, _, _, _, _)
\* the for loop of _combine_variations from index i on
CombineFrom(i, acc, ns, ds, as, target) ==
    IF i >= target THEN acc
    ELSE LET combination == <<ns[(i % Len(ns)) + 1], ds[(i % Len(ds)) + 1],
                              as[(i % Len(as)) + 1]>>
             alt == <<ns[(((i % Len(ns)) + 1) % Len(ns)) + 1],
                      ds[(i % Len(ds)) + 1], as[(i % Len(as)) + 1]>>
             used == {acc[k] : k \in 1..Len(acc)}
         IN CombineFrom(i + 1,
                        Append(acc, IF combination \notin used THEN combination
                                    ELSE IF alt \notin used THEN alt
                                    ELSE combination),
                        ns, ds, as, target)

\* the three extension loops of _combine_variations cannot end
CombineSpins(ns, ds, as, target) ==
    target > 0 /\ (ns = <<>> \/ ds = <<>> \/ as = <<>>)

\* Miner._combine_variations(name_vars, dob_vars, address_vars, target_count)
combine_variations(ns, ds, as, target) ==
    Take(CombineFrom(0, <<>>, ExtendTo(ns, target), ExtendTo(ds, target),
                     ExtendTo(as, target), target),
         target)

\* the k-th variation a generator produced, and the seed's own component
Variation(k) == <<"variation", k>>
Original == <<"original", 0>>

\* generate_name_variations(name, parsed_query): a list of exactly
\* variation_count texts, or the call never returns (a seed of one non-Latin
\* character spins in _apply_script_transformations)
NameOutcomes(count) == {[kind |-> "list", n |-> count], [kind |-> "hang", n |-> 0]}

\* generate_dob_variations(dob, variation_count): a list of at most
\* variation_count dates, or an exception for a birthdate it cannot read
DobOutcomes(count) ==
    {[kind |-> "list", n |-> d] : d \in 0..count} \cup {[kind |-> "raise", n |-> 0]}

\* generate_address_variations(address, parsed_query): _ensure_variation_count
\* returns exactly variation_count addresses
AddressOutcomes(count) == {[kind |-> "list", n |-> count]}

ForwardTexts ==
    {<<>>, sample_query,
     <<W("generate"), N(2), W("name"), W("variations")>>,
     <<N(3), W("variations"), W("of")>>,
     <<W("include"), P(Huge)>>}

ForwardNames == {<<"J", "o", "h", "n">>, <<"CY_YA">>}

ForwardInputs ==
    /\ fwdText \in ForwardTexts
    /\ fwdIds \in ListsUpTo(ForwardNames, MaxIdentities)
    /\ fwdPc = "call"
    /\ fwdI = 1
    /\ fwdReq = <<>>
    /\ fwdVariations = <<>>

ForwardInit ==
    /\ GenIdle /\ CalcIdle /\ ParseIdle /\ RuleIdle /\ CandIdle /\ FilterIdle
    /\ SelectIdle /\ ServiceIdle /\ ForwardInputs /\ LookupIdle /\ MoreIdle

\* step 1: parse_query_template inside the outer try; its exception reaches
\* the outer except, which sets synapse.variations = {} and returns
ForwardParse ==
    /\ fwdPc = "call"
    /\ fwdReq' = parse_query_template(fwdText)
    /\ fwdPc' = IF Returned(fwdReq') THEN "loop" ELSE "returned"
    /\ UNCHANGED <<fwdText, fwdIds, fwdI, fwdVariations, outsideForward>>

\* variations[name] = entry
SetEntry(v, n, entry) ==
    [m \in DOMAIN v \cup {n} |-> IF m = n THEN entry ELSE v[m]]

\* step 2: one identity: the three generators and _combine_variations inside
\* the inner try, whose except stores variation_count copies of the identity
ForwardIdentity ==
    /\ fwdPc = "loop" /\ fwdI <= Len(fwdIds)
    /\ LET count == fwdReq.variation_count
           Range(n) == [k \in 1..n |-> Variation(k)]
       IN \E no \in NameOutcomes(count), do \in DobOutcomes(count),
             ao \in AddressOutcomes(count) :
             \/ /\ no.kind = "hang"
                /\ fwdPc' = "hung"
                /\ UNCHANGED <<fwdI, fwdVariations>>
             \/ /\ no.kind = "list" /\ do.kind = "raise"
                /\ fwdVariations' =
                      SetEntry(fwdVariations, fwdIds[fwdI],
                               [k \in 1..count |-> <<Original, Original, Original>>])
                /\ fwdI' = fwdI + 1
                /\ UNCHANGED fwdPc
             \/ /\ no.kind = "list" /\ do.kind = "list"
                /\ CombineSpins(Range(no.n), Range(do.n), Range(ao.n), count)
                /\ fwdPc' = "hung"
                /\ UNCHANGED <<fwdI, fwdVariations>>
             \/ /\ no.kind = "list" /\ do.kind = "list"
                /\ ~CombineSpins(Range(no.n), Range(do.n), Range(ao.n), count)
                /\ fwdVariations' =
                      SetEntry(fwdVariations, fwdIds[fwdI],
                               combine_variations(Range(no.n), Range(do.n),
                                                  Range(ao.n), count))
                /\ fwdI' = fwdI + 1
                /\ UNCHANGED fwdPc
    /\ UNCHANGED <<fwdText, fwdIds, fwdReq, outsideForward>>

\* synapse.variations = variations; return synapse
ForwardReturn ==
    /\ fwdPc = "loop" /\ fwdI > Len(fwdIds)
    /\ fwdPc' = "returned"
    /\ UNCHANGED <<fwdText, fwdIds, fwdI, fwdReq, fwdVariations, outsideForward>>

ForwardNext ==
    \/ ForwardParse
    \/ ForwardIdentity
    \/ ForwardReturn

ForwardSpec == ForwardInit /\ [][ForwardNext]_vars

\* ----------------------------------------- _fallback_variations_with_dedup
\* the four modifications of the padding loop, in order
modifications(x) ==
    << IF Contains(x, <<"a">>) THEN Replace(x, <<"a">>, <<"e">>) ELSE x \o <<"e">>,
       IF Contains(x, <<"i">>) THEN Replace(x, <<"i">>, <<"y">>)
       ELSE Replace(x, <<"e">>, <<"i">>),
       IF Len(x) > 3 THEN Take(x, Len(x) - 1) ELSE x \o <<"n">>,
       IF ~EndsWith(x, <<"h">>) THEN x \o <<"h">> ELSE Take(x, Len(x) - 1) >>

RECURSIVE PhoneticPhase(_, _, _, _)
\* "for var in phonetic_candidates": the pair <<fallback_vars, used>> after it
PhoneticPhase(cands, count, list, used) ==
    IF cands = <<>> \/ Len(list) >= count THEN <<list, used>>
    ELSE IF Lower(cands[1]) \notin used
            /\ ~is_too_similar_to_existing(cands[1], used)
         THEN PhoneticPhase(Tail(cands), count, Append(list, cands[1]),
                            used \cup {Lower(cands[1])})
         ELSE PhoneticPhase(Tail(cands), count, list, used)

RECURSIVE ModificationPass(_, _, _, _, _)
\* "for mod_func in modifications": the pair <<fallback_vars, used>> after it
ModificationPass(mods, n, count, list, used) ==
    IF mods = <<>> \/ Len(list) >= count THEN <<list, used>>
    ELSE IF /\ mods[1] # n
            /\ Lower(mods[1]) \notin used
            /\ validate_variation_quality(mods[1], n)
            /\ ~is_too_similar_to_existing(mods[1], used)
         THEN ModificationPass(Tail(mods), n, count, Append(list, mods[1]),
                               used \cup {Lower(mods[1])})
         ELSE ModificationPass(Tail(mods), n, count, list, used)

FallbackSeeds == {<<"J", "o", "h", "n">>, <<"K", "i">>, <<"P", "h", "i", "l">>}

FallbackInit ==
    /\ GenIdle /\ CalcIdle /\ ParseIdle /\ RuleIdle /\ CandIdle
    /\ FilterIdle /\ SelectIdle /\ ServiceIdle /\ ForwardIdle /\ LookupIdle
    /\ CombineIdle
    /\ fbName \in FallbackSeeds
    /\ fbCount \in 0..MaxFallback
    /\ fbExisting \in SUBSET {Lower(modifications(fbName)[k]) : k \in 1..4}
    /\ fbPc = "call"
    /\ fbVars = <<>> /\ fbUsed = {}

\* the call up to the padding loop
FallbackCall ==
    /\ fbPc = "call"
    /\ LET after == PhoneticPhase(nrb_generate_phonetic_variations(fbName, fbCount * 2),
                                  fbCount, <<>>, fbExisting)
       IN fbVars' = after[1] /\ fbUsed' = after[2]
    /\ fbPc' = "pad"
    /\ UNCHANGED <<fbName, fbCount, fbExisting, outsideFallback>>

\* one iteration of "while len(fallback_vars) < count", with its
\* "if len(fallback_vars) == 0: break"
FallbackPass ==
    /\ fbPc = "pad"
    /\ Len(fbVars) < fbCount
    /\ LET after == ModificationPass(modifications(fbName), fbName, fbCount,
                                     fbVars, fbUsed)
       IN /\ fbVars' = after[1] /\ fbUsed' = after[2]
          /\ fbPc' = IF Len(after[1]) = 0 THEN "returned" ELSE "pad"
    /\ UNCHANGED <<fbName, fbCount, fbExisting, outsideFallback>>

\* the loop condition fails: return fallback_vars
FallbackReturn ==
    /\ fbPc = "pad"
    /\ Len(fbVars) >= fbCount
    /\ fbPc' = "returned"
    /\ UNCHANGED <<fbName, fbCount, fbExisting, fbVars, fbUsed, outsideFallback>>

FallbackNext == FallbackCall \/ FallbackPass \/ FallbackReturn

FallbackSpec == FallbackInit /\ [][FallbackNext]_vars

\* ------------------------------------- Miner._combine_variations on its own
NameItems == {"n1", "n2"}
DobItems == {"d1", "d2"}
AddressItems == {"a1"}

CombineInit ==
    /\ GenIdle /\ CalcIdle /\ ParseIdle /\ RuleIdle /\ CandIdle
    /\ FilterIdle /\ SelectIdle /\ ServiceIdle /\ ForwardIdle /\ LookupIdle
    /\ FallbackIdle
    /\ cmbLists \in ListsUpTo(NameItems, MaxComponent)
                      \X ListsUpTo(DobItems, MaxComponent)
                      \X ListsUpTo(AddressItems, MaxComponent)
    /\ cmbTarget \in 1..MaxCombine
    /\ cmbPc = "extend"
    /\ cmbOut = <<>>

\* one iteration of the first of the three while loops that has not ended:
\* l.extend(l[:min(len(l), target_count - len(l))])
CombineExtend ==
    /\ cmbPc = "extend"
    /\ \E k \in 1..3 :
         /\ Len(cmbLists[k]) < cmbTarget
         /\ \A j \in 1..(k - 1) : Len(cmbLists[j]) >= cmbTarget
         /\ cmbLists' = [cmbLists EXCEPT ![k] =
                            @ \o Take(@, Min(Len(@), cmbTarget - Len(@)))]
    /\ UNCHANGED <<cmbTarget, cmbPc, cmbOut, outsideCombine>>

\* the for loop and "return complete_variations[:target_count]"
CombineReturn ==
    /\ cmbPc = "extend"
    /\ \A k \in 1..3 : Len(cmbLists[k]) >= cmbTarget
    /\ cmbOut' = Take(CombineFrom(0, <<>>, cmbLists[1], cmbLists[2], cmbLists[3],
                                  cmbTarget), cmbTarget)
    /\ cmbPc' = "returned"
    /\ UNCHANGED <<cmbLists, cmbTarget, outsideCombine>>

CombineNext == CombineExtend \/ CombineReturn

CombineSpec == CombineInit /\ [][CombineNext]_vars

\* ------------------------------------------------------------------ claims
\* no two elements of the list are equal after lower-casing
DistinctLower(list) ==
    \A i, j \in 1..Len(list) : i # j => Lower(list[i]) # Lower(list[j])

\* C1: whenever generate_name_variations returns, the returned list has exactly
\* variation_count elements
C1_ExactCount == pc = "done" => Len(variations) = vc

\* a return whose list was brought up to the count by padding
C1_Witness ==
    /\ pc = "done" /\ Len(variations) = vc
    /\ \E i \in 1..Len(origin) : origin[i] = "pad"

\* C2: the list under construction never holds two elements that are equal after
\* lower-casing: in the rule phase, in every free-generation strategy, after the
\* transliteration merge and after count reconciliation
C2_NoCaseDuplicates ==
    /\ DistinctLower(variations) /\ DistinctLower(lvars) /\ DistinctLower(rvars)
    /\ DistinctLower(ovars) /\ DistinctLower(svars)

\* a returned list of a non-Latin seed that merged script-specific variations
\* with variations of the transliteration
C2_Witness ==
    /\ pc = "done" /\ Script # "latin" /\ Len(variations) >= 2
    /\ \E i, j \in 1..Len(origin) :
         origin[i] = "script" /\ origin[j] \in {"rule", "phonetic", "ortho"}

\* C3: no element of the list equals the seed after lower-casing, at any point
\* up to and including the return
C3_NeverSeed ==
    \A i \in 1..Len(variations) : Lower(variations[i]) # Lower(name)

\* a return for the seed "Kk" after the swap rule produced "kK", which differs
\* from the seed only by case and was dropped
C3_Witness ==
    /\ pc = "done" /\ name = <<"K", "k">> /\ rules = <<"swap_random_letter">>
    /\ rule_count(vc, pct) > 0 /\ rvars = <<>> /\ Len(variations) = vc

\* C4: for a seed of at most 2 characters the call never sits in a loop that can
\* make no progress: before the return some step changes the state
C4_ShortSeedProgress ==
    (Len(name) <= 2 /\ pc \in LoopPositions) => ENABLED <<LoopSteps>>_vars

\* C5: the orchestrator allocates ceil(variation_count * rule_percentage) slots
\* to the rules, the same number as calculate_rule_count, and 6 for (11, 0.51)
C5_OrchestratorRoundsUp ==
    calcOut # <<>> =>
        /\ calcOut.orchestrator * 100 >= calcIn[1] * calcIn[2]
        /\ (calcOut.orchestrator - 1) * 100 < calcIn[1] * calcIn[2]
        /\ calcOut.orchestrator = calcOut.helper
        /\ (calcIn = <<11, 51>> => calcOut.orchestrator = 6)

\* rank of a strategy in the order the spec states: rule-derived, free, padded
SpecRank(tag) ==
    CASE tag = "rule" -> 1
      [] tag \in {"script", "phonetic", "ortho"} -> 2
      [] tag = "pad" -> 3

\* rank of a stage in Parsed, RuleAllocated, FreeGenerated, Reconciled, Returned
SpecStageRank(st) ==
    CASE st = "Parsed" -> 0
      [] st = "RuleAllocated" -> 1
      [] st \in {"ScriptGenerated", "FreeGenerated"} -> 2
      [] st = "Reconciled" -> 3
      [] st = "Returned" -> 4

CodeRank(tag) ==
    CASE tag = "script" -> 0 [] tag = "rule" -> 1 [] tag = "phonetic" -> 2
      [] tag = "ortho" -> 3 [] tag = "pad" -> 4

CodeStageRank(st) ==
    CASE st = "Parsed" -> 0 [] st = "ScriptGenerated" -> 1
      [] st = "RuleAllocated" -> 2 [] st = "FreeGenerated" -> 3
      [] st = "Reconciled" -> 4 [] st = "Returned" -> 5

RuleOutputs(s, rs, per) ==
    UNION { UNION { {apply_single_rule(s, rs[k], per, rnd)[m] :
                       m \in 1..Len(apply_single_rule(s, rs[k], per, rnd))} :
                    rnd \in [1..per -> RuleRandoms(s, rs[k])] } :
            k \in 1..Len(rs) }

RuleIdx == {i \in 1..Len(origin) : origin[i] = "rule"}

AnyPatternMatches(pats, txt) == \E k \in 1..Len(pats) : PatternMatches(pats[k], txt)

AnySimPatternMatches(field, txt) == \E k \in 1..3 : SimPattern(k, field, txt)[1]

\* C8: parse_query_template returns a requirement for every instruction text
\* and raises nothing, and a field none of whose patterns matches keeps its
\* default
C8_DefaultsWhenAbsent ==
    req # <<>> =>
        /\ Returned(req)
        /\ ~AnyPatternMatches(count_patterns, text) => req.variation_count = 15
        /\ ~AnyPatternMatches(rule_pct_patterns, text) => req.rule_percentage = Frac(0)
        /\ (\A k \in 1..Len(RuleTriggers) : \A phrase \in RuleTriggers[k][2] :
              ~Contains(text, phrase)) => req.rules = <<>>
        /\ ~AnySimPatternMatches("phonetic", text) => req.phonetic_similarity = <<>>
        /\ ~AnySimPatternMatches("orthographic", text) =>
             req.orthographic_similarity = <<>>
        /\ (\A i \in 1..Len(text) : text[i][1] # "q") => req.uav_seed_name = "None"

\* C9: the stored rule_percentage is the matched integer percent over 100 and
\* lies in [0, 1]
C9_FractionInUnitInterval ==
    (req # <<>> /\ Returned(req)) =>
        /\ req.rule_percentage.den = 100
        /\ (AnyPatternMatches(rule_pct_patterns, text) =>
              \E k \in 1..Len(rule_pct_patterns) :
                /\ PatternMatches(rule_pct_patterns[k], text)
                /\ req.rule_percentage.num = Group1(rule_pct_patterns[k], text))
        /\ 0 <= req.rule_percentage.num
        /\ req.rule_percentage.num <= req.rule_percentage.den

\* index of the first pattern of the list that matches, 0 when none does
FirstMatching(pats, txt) ==
    IF AnyPatternMatches(pats, txt)
    THEN CHOOSE k \in 1..Len(pats) :
           PatternMatches(pats[k], txt) /\ \A j \in 1..(k - 1) : ~PatternMatches(pats[j], txt)
    ELSE 0

\* the count or percent the first matching pattern captured, None without a match
FirstMatchingValue(pats, txt) ==
    IF FirstMatching(pats, txt) = 0 THEN None
    ELSE Group1(pats[FirstMatching(pats, txt)], txt)

\* the mapping read from the first similarity pattern accepted by good
FirstSimilarity(field, txt, good(_)) ==
    IF \E k \in 1..3 : good(k)
    THEN Tiers(SimPattern(CHOOSE k \in 1..3 : good(k) /\ \A j \in 1..(k - 1) : ~good(j),
                          field, txt)[2])
    ELSE <<>>

\* (the parser's "if variation_count:" keeps the default for a captured 0)
CountAndPercentFromFirstMatch ==
    /\ req.variation_count =
         IF FirstMatchingValue(count_patterns, text) \in {None, 0} THEN 15
         ELSE FirstMatchingValue(count_patterns, text)
    /\ req.rule_percentage =
         IF FirstMatchingValue(rule_pct_patterns, text) = None THEN Frac(0)
         ELSE Frac(FirstMatchingValue(rule_pct_patterns, text))

\* C10 as stated: each of the four fields takes its value from the first pattern,
\* in list order, that matches the text
C10_FirstMatchingPatternWins ==
    (req # <<>> /\ Returned(req)) =>
        /\ CountAndPercentFromFirstMatch
        /\ req.phonetic_similarity =
             FirstSimilarity("phonetic", text,
                             LAMBDA k : SimPattern(k, "phonetic", text)[1])
        /\ req.orthographic_similarity =
             FirstSimilarity("orthographic", text,
                             LAMBDA k : SimPattern(k, "orthographic", text)[1])

\* C10 amended: count and percentage come from the first pattern in list order
\* that matches, wherever in the text it matches; a distribution comes from the
\* first pattern in list order that matches and whose matched text holds at least
\* one tier percentage, a pattern that matches without one being passed over
C10_FirstProductivePatternWins ==
    (req # <<>> /\ Returned(req)) =>
        /\ CountAndPercentFromFirstMatch
        /\ req.phonetic_similarity =
             FirstSimilarity("phonetic", text,
                 LAMBDA k : /\ SimPattern(k, "phonetic", text)[1]
                            /\ Tiers(SimPattern(k, "phonetic", text)[2]) # <<>>)
        /\ req.orthographic_similarity =
             FirstSimilarity("orthographic", text,
                 LAMBDA k : /\ SimPattern(k, "orthographic", text)[1]
                            /\ Tiers(SimPattern(k, "orthographic", text)[2]) # <<>>)

\* a parsed text whose first phonetic pattern matches without a tier percentage
\* while a later pattern supplies the mapping
C10_Witness ==
    /\ req # <<>> /\ Returned(req)
    /\ SimPattern(1, "phonetic", text)[1]
    /\ Tiers(SimPattern(1, "phonetic", text)[2]) = <<>>
    /\ req.phonetic_similarity # <<>>

\* C11: parsing the sample instruction yields variation_count 11, phonetic
\* {Light 0.3, Medium 0.4, Far 0.3}, orthographic {Light 0.5, Medium 0.5}
\* without a Far key, rule_percentage 0.51 and the rule list holding
\* reorder_name_parts and nothing else
C11_SampleQuery ==
    (text = sample_query /\ req # <<>>) =>
        /\ Returned(req)
        /\ req.variation_count = 11
        /\ DOMAIN req.phonetic_similarity = {"Light", "Medium", "Far"}
        /\ req.phonetic_similarity["Light"] = Frac(30)
        /\ req.phonetic_similarity["Medium"] = Frac(40)
        /\ req.phonetic_similarity["Far"] = Frac(30)
        /\ DOMAIN req.orthographic_similarity = {"Light", "Medium"}
        /\ req.orthographic_similarity["Light"] = Frac(50)
        /\ req.orthographic_similarity["Medium"] = Frac(50)
        /\ req.rule_percentage = Frac(51)
        /\ req.rules = <<"reorder_name_parts">>

\* the sample instruction has been parsed
C11_Witness == text = sample_query /\ req # <<>> /\ Returned(req)

\* C12: apply_rule_to_name with a rule that is not in the dispatch table
\* returns the input text and raises nothing; generate_rule_based_variations
\* counts no variation for such a rule and still processes every rule of the
\* list
C12_UnknownRuleIgnored ==
    /\ (rpc = "called" /\ rrules[1] \notin RuleMapKeys) => rresult = rname
    /\ rpc \in {"gen", "returned"} =>
         \A k \in 1..Len(gadded) : rrules[k] \notin RuleMapKeys => gadded[k] = 0
    /\ (rpc = "returned" /\ rcount > 0 /\ rrules # <<>>) =>
         Len(gadded) = Len(rrules)

\* an unknown rule was skipped and a later rule of the list added a variation
C12_Witness ==
    /\ rpc = "returned"
    /\ \E k \in 1..Len(gadded) : \E j \in (k + 1)..Len(gadded) :
         rrules[k] \notin RuleMapKeys /\ gadded[k] = 0 /\ gadded[j] > 0

\* the applicability conditions named for the catalog's rules
RuleApplicable(s, rule) ==
    \/ rule \in {"delete_letter", "delete_random_letter"} /\ Len(s) >= 2
    \/ /\ rule \in {"replace_spaces_with_special_characters",
                    "replace_spaces_with_random_special_characters"}
       /\ Contains(s, <<" ">>)
    \/ /\ rule = "swap_random_letter"
       /\ \E i \in 1..(Len(s) - 1) :
            IsAlpha(s[i]) /\ IsAlpha(s[i + 1]) /\ LowerChar(s[i]) # LowerChar(s[i + 1])
    \/ /\ rule \in {"replace_vowels", "replace_random_vowels",
                    "replace_random_vowel_with_random_vowel"}
       /\ \E i \in 1..Len(s) : IsVowel(s[i])
    \/ /\ rule = "remove_accents"
       /\ \E i \in 1..Len(s) : s[i] \in {"LA_a_grave", "LA_e_acute", "LA_i_acute",
                                         "LA_o_acute", "LA_u_acute"}
    \/ rule = "remove_hyphens" /\ Contains(s, <<"-">>)

\* C13: on a text on which the rule is applicable apply_rule_to_name returns a
\* text different from the input
C13_ApplicableRuleChanges ==
    (rpc = "called" /\ RuleApplicable(rname, rrules[1])) => rresult # rname

\* b is a with two adjacent, different characters exchanged
AdjacentExchange(a, b) ==
    /\ Len(a) = Len(b)
    /\ \E i \in 1..(Len(a) - 1) : a[i] # a[i + 1] /\ b = SwapAt(a, i - 1)

C15_CandidatesDistinctFromSeed ==
    cpc = "returned" =>
        /\ Len(cresult) <= ccount
        /\ DistinctLower(cresult)
        /\ \A k \in 1..Len(cresult) : Lower(cresult[k]) # Lower(cname)

\* a is b with its first or its last character removed, or the reverse
OneEndRemoved(a, b) ==
    \/ a # <<>> /\ b \in {Tail(a), Take(a, Len(a) - 1)}
    \/ b # <<>> /\ a \in {Tail(b), Take(b, Len(b) - 1)}

\* the near-duplicate relation on lower-case texts: character sets with a
\* Jaccard index above 0.9, one end character removed, or a nickname pair
NearDuplicate(a, b) ==
    \/ 10 * Cardinality(CharSet(a) \cap CharSet(b))
          > 9 * Cardinality(CharSet(a) \cup CharSet(b))
    \/ OneEndRemoved(a, b)
    \/ \E p \in substitutions :
          \/ Contains(a, p[1]) /\ Contains(b, p[2])
          \/ Contains(a, p[2]) /\ Contains(b, p[1])

\* C16: every text _clean_ollama_variations_with_dedup has accepted, and so
\* every text it returns, differs from the seed case-insensitively, is not in
\* the existing set, has a length within 3 of the seed's, holds no digit, no
\* address keyword, no month or date word and no forbidden character, has a
\* word count within 1 of the seed's, and is no near-duplicate of an existing
\* text or of a text accepted before it
C16_AcceptedPassFilter ==
    /\ \A k \in 1..Len(fresult) : \E j \in 1..Len(fcands) : fresult[k] = fcands[j]
    /\ \A k \in 1..Len(fcands) :
          LET c == fcands[k]
          IN /\ Lower(c) # Lower(fname)
             /\ c \notin fexisting /\ Lower(c) \notin fexisting
             /\ Len(c) - Len(fname) \in (0 - 3)..3
             /\ \A i \in 1..Len(c) : c[i] \notin Digits \cup problematic_chars
             /\ \A w \in address_indicators \cup months \cup date_words :
                   ~HasWord(Lower(c), w)
             /\ Len(Split(c)) - Len(Split(fname)) \in (0 - 1)..1
             /\ \A e \in fexisting \cup {fcands[j] : j \in 1..(k - 1)} :
                   ~NearDuplicate(Lower(c), Lower(e))

\* the filter returned two texts although the existing set was not empty and
\* some offered candidate was turned down
C16_Witness ==
    /\ fpc = "returned" /\ Len(fresult) = 2 /\ fexisting # {}
    /\ Len(SplitOn(Replace(fraw, <<"\n">>, <<",">>), ",")) > Len(fcands)

\* four times the score of the i-th candidate handed to the selection
SelScore(i) == calculate_variation_score(selCands[i], selOrig)

\* f picks the returned texts out of the candidates: in descending score,
\* equal scores in their original order, no better candidate left out
StableTopChoice(f) ==
    /\ \A k \in 1..Len(selOut) : selOut[k] = selCands[f[k]]
    /\ \A i, j \in 1..Len(selOut) :
          i < j => /\ f[i] # f[j]
                   /\ ~Higher(SelScore(f[j]), SelScore(f[i]))
                   /\ ~Higher(SelScore(f[i]), SelScore(f[j])) => f[i] < f[j]
    /\ \A m \in 1..Len(selCands) :
          (\A k \in 1..Len(selOut) : f[k] # m)
             => \A k \in 1..Len(selOut) : ~Higher(SelScore(m), SelScore(f[k]))

\* C17: _select_best_variations returns min(K, number of candidates)
\* candidates in descending order of score, candidates of equal score in
\* their original relative order, and leaves out no candidate whose score is
\* strictly higher than that of a returned one
C17_StableTopK ==
    selPc = "returned" =>
       /\ Len(selOut) = Min(selK, Len(selCands))
       /\ \E f \in [1..Len(selOut) -> 1..Len(selCands)] : StableTopChoice(f)

\* C18: when the service answered, every text in the list a service-calling
\* function returns passes the acceptance predicate applied to locally
\* generated candidates (_validate_variation_quality)
C18_ServiceItemsRevalidated ==
    (svcPc = "returned" /\ svcMode = "ok") =>
       \A k \in 1..Len(svcOut) : validate_variation_quality(svcOut[k], svcName)

\* C19: when the service fails, the function that called it raises nothing
C19_ServiceFailureContained ==
    (svcMode \notin {"ok", "none"}) => svcPc # "raised"

\* C20: when Miner.forward returns, synapse.variations has an entry for every
\* identity of the request and every entry holds exactly variation_count
\* items
C20_EveryIdentityAnswered ==
    fwdPc = "returned" =>
       \A i \in 1..Len(fwdIds) :
          /\ fwdIds[i] \in DOMAIN fwdVariations
          /\ Returned(fwdReq) =>
                Len(fwdVariations[fwdIds[i]]) = fwdReq.variation_count
C22_ScriptFillProgresses ==
    (cpc = "fill" /\ Len(cvars) < ccount) =>
        \E l \in script_fill_iteration(cname, ccount, cvars) : l # cvars

\* C23: count reconciliation always comes to an end: while the list is short
\* of target_count, an iteration of the top-up loop can add a string (or the
\* loop has given up and padded with the seed)
C23_TopUpProgresses ==
    (pc = "ensure" /\ Len(variations) < vc) => ENABLED <<EnsureStep>>_vars

\* the loop of a generator with an attempt budget can take a step: run one
\* more attempt, or end
BudgetLoopSteps ==
    \/ NamePhoneticAttempt \/ NamePhoneticReturn
    \/ OrthoAttempt \/ OrthoReturn
    \/ OrthoSub \/ OrthoIns \/ OrthoDel \/ OrthoExit

C25_AllotmentsSplitRuleCount ==
    (rpc \in {"gen", "returned"} /\ rcount > 0 /\ rrules # <<>>) =>
        /\ \A i \in 1..(gi - 1) :
             /\ variations_per_rule(rcount, rrules)
                  = count_for_this_rule(rcount, Len(rrules), i - 1)
             /\ gadded[i] <= count_for_this_rule(rcount, Len(rrules), i - 1)
        /\ Len(gvars) <= rcount

\* C26: no two threads are at the same time past the cache check for the same
\* key (so concurrent lookups of a key make one external call), and a key is
\* stored at most once: after a successful lookup every later lookup of the
\* key is a cache hit
C26_OneGeocodingCallPerKey ==
    /\ \A t1, t2 \in Threads :
         (t1 # t2 /\ lkPc[t1] # "idle" /\ lkPc[t2] # "idle")
            => cache_key(lkCity[t1], Country) # cache_key(lkCity[t2], Country)
    /\ \A k \in CacheKeys : lkStored[k] <= 1

\* C27: _combine_variations comes to an end and returns exactly target_count
\* triples: while a component list is shorter than target_count an iteration
\* of its extension loop makes it longer, and the list returned has
\* target_count entries of three components
C27_CombineReturnsTargetCount ==
    /\ (cmbPc = "extend" /\ \E k \in 1..3 : Len(cmbLists[k]) < cmbTarget)
          => ENABLED <<CombineExtend>>_vars
    /\ cmbPc = "returned" =>
          /\ Len(cmbOut) = cmbTarget
          /\ \A i \in 1..Len(cmbOut) : Len(cmbOut[i]) = 3

\* C28: the triples _combine_variations returns for non-empty component lists
\* are pairwise distinct
C28_TriplesPairwiseDistinct ==
    cmbPc = "returned" =>
        \A i, j \in 1..Len(cmbOut) : i # j => cmbOut[i] # cmbOut[j]

\* C29: _fallback_variations_with_dedup comes to an end: while fallback_vars is
\* short of count, a pass over the four modifications either adds a string or
\* leaves the loop, also when fallback_vars is not empty
C29_PaddingLoopEnds ==
    (fbPc = "pad" /\ Len(fbVars) < fbCount) => ENABLED <<FallbackPass>>_vars

\* the dispatch of _apply_single_rule (name.py) knows a rule identifier: for
\* some name it yields a variation
DispatchKnows(rule) ==
    \E s \in RuleTexts : apply_single_rule(s, rule, 1, [i \in 1..1 |-> 0]) # <<>>

\* C30: every rule identifier the parser has put into the requirement is known
\* to the rule dispatch of the name orchestrator
C30_EmittedRulesDispatched ==
    (req # <<>> /\ Returned(req)) =>
        \A k \in 1..Len(req.rules) : DispatchKnows(req.rules[k])

====
